---- MODULE Spec2Model ----
(***************************************************************************)
(* AegisX-S verification lifecycle: the SQLite store (db.py), the risk     *)
(* engine (detection.py), the web submission handler (web.py) and the bot  *)
(* (bot.py): webhook, process_verification_token, the surge detector and   *)
(* the quarantine sweep.                                                   *)
(*                                                                         *)
(* Every coroutine is cut at its awaits: one action is the code between    *)
(* two awaits together with the store statement or platform call the await *)
(* performs.  Each db.py helper opens its own connection and commits, so a *)
(* helper call is one atomic statement.                                    *)
(***************************************************************************)
EXTENDS Integers, Sequences, FiniteSets, TLC

(***************************************************************************)
(* Bounds of the model.                                                    *)
(***************************************************************************)
MaxTokens == 1
MaxFingerprints == 2
MaxClockSteps == 1
MaxJoins == 3
MaxSurgeSteps == 4
MaxProfileTokens == 2
MaxCalls == 2
MaxSweeps == 3
MaxSweepSteps == 1
MaxSubmits == 5
MaxSubmitClockSteps == 3
MaxPosts == 3
MaxSurgeClockSteps == 38
SurgeClockStep == 2
LastJoinSecond == 35

(***************************************************************************)
(* Program constants.                                                      *)
(***************************************************************************)
QUARANTINE_THRESHOLD == 60
QUARANTINE_HOURS == 24
RATE_WINDOW == 10
RATE_LIMIT == 3
TOKEN_TTL == 600
AUTO_BAN_SCORE == 95
SURGE_WINDOW == 30
SURGE_JOINS == 3
SURGE_PERIOD == 10
SWEEP_PERIOD == 60

\* The weights of compute_risk.  Scores are kept in half points (2 * points):
\* the proxy score weighs 0.5 a point, and every other weight is whole.
W_DUP_FP == 2 * 25
W_DUP_IP == 2 * 20
W_ASN_DATACENTER == 2 * 25
W_VPN == 2 * 35
W_TOR == 2 * 40
W_HONEYPOT == 2 * 90
W_ACCOUNT_AGE == 2 * 20
W_DNA_MATCH == 2 * 35
W_PREVIOUS_BANS == 2 * 25
W_SOCIAL_ISOLATION == 2 * 8

\* Python's None / SQL NULL for a nullable integer column: the empty set; a
\* value t is {t}.
Null == {}
Some(t) == {t}
Val(x) == CHOOSE t \in x : TRUE
\* Python truthiness of an Optional[int]: None and 0 are falsy.
Truthy(x) == \E t \in x : t # 0

\* The addresses requests come from.
Addresses == {"ip1"}
DiscordIds == {"u1", "u2"}
TokenIds == 1..MaxTokens

Min(a, b) == IF a <= b THEN a ELSE b
Max(a, b) == IF a >= b THEN a ELSE b

VARIABLES
    now,            \* time.time(), whole seconds
    clock_steps,    \* how many times the model's clock has advanced
    verifications,  \* table verifications, in rowid order
    fingerprints,   \* table fingerprints, in rowid order
    dna_profiles,   \* table dna_profiles, in rowid order
    actions,        \* table actions, in rowid order
    quarantined,    \* table quarantined, in rowid order
    members,        \* the guild's member roster
    roles,          \* member id -> platform roles held
    banned,         \* members removed by member.ban
    AUTO_BAN,       \* bot.py configuration, fixed at start
    inflight,       \* token -> signed notifications posted by web.py, not yet received
    ip_store,       \* web.py _ip_store: address -> times of its recent requests
    tasks,          \* process_verification_token tasks, by creation order
    recent_joins,   \* bot.py recent_joins
    surge_mode,     \* bot.py surge_mode
    mod_log_surge   \* surge notifications sent to the mod-log channel

vars == <<now, clock_steps, verifications, fingerprints, dna_profiles, actions,
          quarantined, members, roles, banned, AUTO_BAN, inflight, ip_store,
          tasks, recent_joins, surge_mode, mod_log_surge>>

storeVars == <<verifications, fingerprints, dna_profiles, actions, quarantined>>
guildVars == <<members, roles, banned>>
surgeVars == <<recent_joins, surge_mode, mod_log_surge>>

(***************************************************************************)
(* db.py                                                                   *)
(***************************************************************************)
\* create_verification: expires_seconds 0 stands for a falsy ttl (None or 0).
create_verification(tbl, token, discord_id, expires_seconds, ts) ==
    Append(tbl, [discord_id |-> discord_id, token |-> token, status |-> "pending",
                 used |-> FALSE, created_at |-> ts,
                 expires_at |-> IF expires_seconds # 0 THEN Some(ts + expires_seconds)
                                ELSE Null,
                 verified_at |-> Null])

\* get_verification: the first row with the token (fetchone), or Null.
get_verification(tbl, token) ==
    LET hits == {i \in DOMAIN tbl : tbl[i].token = token}
    IN  IF hits = {} THEN Null
        ELSE Some(tbl[CHOOSE i \in hits : \A j \in hits : i <= j])

mark_token_used(tbl, token, ts) ==
    [i \in DOMAIN tbl |->
        IF tbl[i].token = token
        THEN [tbl[i] EXCEPT !.used = TRUE, !.verified_at = Some(ts)]
        ELSE tbl[i]]

set_verification_status(tbl, token, status, ts) ==
    [i \in DOMAIN tbl |->
        IF tbl[i].token = token
        THEN [tbl[i] EXCEPT !.status = status, !.verified_at = Some(ts)]
        ELSE tbl[i]]

save_fingerprint(tbl, token, fp, ip, asn, ua, honeypot, ts) ==
    Append(tbl, [token |-> token, fp |-> fp, ip |-> ip, asn |-> asn, ua |-> ua,
                 honeypot |-> honeypot, created_at |-> ts])

\* Every order ORDER BY created_at DESC may return the token's rows in: rows
\* written in the same second are in no defined order.
fetch_fingerprints_by_token(tbl, token) ==
    LET idx == {i \in DOMAIN tbl : tbl[i].token = token}
        n == Cardinality(idx)
        orders == {o \in [1..n -> idx] :
                      /\ \A a, b \in 1..n : a # b => o[a] # o[b]
                      /\ \A a, b \in 1..n :
                            a < b => tbl[o[a]].created_at >= tbl[o[b]].created_at}
    IN  {[k \in 1..n |-> tbl[o[k]]] : o \in orders}

save_dna_profile(tbl, discord_id, typing_profile, mouse_profile, ts) ==
    Append(tbl, [discord_id |-> discord_id, typing |-> typing_profile,
                 mouse |-> mouse_profile, created_at |-> ts])

fetch_all_dna_profiles(tbl) ==
    [i \in DOMAIN tbl |-> [discord_id |-> tbl[i].discord_id,
                           typing |-> tbl[i].typing, mouse |-> tbl[i].mouse]]

add_action(tbl, discord_id, action, reason, ts) ==
    Append(tbl, [discord_id |-> discord_id, action |-> action, reason |-> reason,
                 created_at |-> ts])

quarantine_member(tbl, discord_id, until_ts, ts) ==
    Append(tbl, [discord_id |-> discord_id, until_ts |-> until_ts, created_at |-> ts])

get_quarantined(tbl) ==
    [i \in DOMAIN tbl |-> <<tbl[i].discord_id, tbl[i].until_ts>>]

(***************************************************************************)
(* Python dicts are functions from their keys; {} is the empty function.   *)
(***************************************************************************)
EmptyDict == [k \in {} |-> 0]
DictGet(d, k, default) == IF k \in DOMAIN d THEN d[k] ELSE default
DictTruthy(d) == DOMAIN d # {}

(***************************************************************************)
(* detection.py                                                            *)
(***************************************************************************)
RECURSIVE SumOver(_, _)
SumOver(f, n) == IF n = 0 THEN 0 ELSE f[n] + SumOver(f, n - 1)

Dot(a, b) == SumOver([i \in 1..Len(a) |-> a[i] * b[i]], Len(a))

\* np.linalg.norm on the vectors of the model, whose squared norms are perfect
\* squares, so that the norm is an integer and the cosine a fraction.
Norm(a) == CHOOSE r \in 0..Dot(a, a) : r * r = Dot(a, a)

\* cosine: np.dot raises ValueError on two non-empty vectors of different
\* lengths; otherwise the cosine is the fraction num / den.
cosine(a, b) ==
    IF Len(a) = 0 \/ Len(b) = 0 THEN [raised |-> FALSE, num |-> 0, den |-> 1]
    ELSE IF Norm(a) * Norm(b) = 0 THEN [raised |-> FALSE, num |-> 0, den |-> 1]
    ELSE IF Len(a) # Len(b) THEN [raised |-> TRUE, num |-> 0, den |-> 1]
    ELSE [raised |-> FALSE, num |-> Dot(a, b), den |-> Norm(a) * Norm(b)]

\* dna_similarity: 0.6 * t_sim + 0.4 * m_sim, as a fraction.
dna_similarity(profile_a, profile_b) ==
    LET t_sim == cosine(DictGet(profile_a, "typing", <<>>), DictGet(profile_b, "typing", <<>>))
        m_sim == cosine(DictGet(profile_a, "mouse", <<>>), DictGet(profile_b, "mouse", <<>>))
    IN  [raised |-> t_sim.raised \/ m_sim.raised,
         num |-> 6 * t_sim.num * m_sim.den + 4 * m_sim.num * t_sim.den,
         den |-> 10 * t_sim.den * m_sim.den]

\* sim > 0.78
OverThreshold(sim) == 100 * sim.num > 78 * sim.den
\* round(sim, 3), in thousandths.
Round3(sim) == (2000 * sim.num + sim.den) \div (2 * sim.den)

\* A rounding that takes every half up.
RoundHalfUp(s2) == (s2 + 1) \div 2

\* int(round(score)) for a score of s2 half points: round() takes a half to
\* the even neighbour.
RoundHalfEven(s2) ==
    IF s2 % 2 = 0 THEN s2 \div 2
    ELSE LET lo == (s2 - 1) \div 2 IN IF lo % 2 = 0 THEN lo ELSE lo + 1

\* One entry of reasons: the signal, the number the text shows, the half
\* points added, and the profile matched (DNA matches only).
Reason(kind, n, add) == [kind |-> kind, n |-> n, add |-> add, who |-> ""]

\* Signals whose order depends on the second of the call.
RiskSignals_by_time(ip_info, honeypot_triggered, account_age_days, db_stats) ==
    (IF honeypot_triggered /\ now % 2 = 0
        THEN <<[kind |-> "honeypot", n |-> 0, add |-> W_HONEYPOT, who |-> ""]>> ELSE <<>>)
    \o (IF DictTruthy(ip_info) /\ DictGet(ip_info, "is_tor", FALSE)
        THEN <<[kind |-> "tor", n |-> 0, add |-> W_TOR, who |-> ""]>> ELSE <<>>)
    \o (IF honeypot_triggered /\ now % 2 = 1
        THEN <<[kind |-> "honeypot", n |-> 0, add |-> W_HONEYPOT, who |-> ""]>> ELSE <<>>)

\* The signals before the DNA comparisons, in the order of the code.
RiskSignals(ip_info, honeypot_triggered, account_age_days, db_stats) ==
    LET fpc == DictGet(db_stats, "same_fp_count", 0)
        ipc == DictGet(db_stats, "same_ip_count", 0)
        pbc == DictGet(db_stats, "previously_banned_count", 0)
        proxy_score == DictGet(ip_info, "proxy_score", 0)
    IN  (IF DictTruthy(db_stats) /\ fpc > 0
            THEN <<Reason("dup_fp", fpc, W_DUP_FP * Min(3, fpc))>> ELSE <<>>)
        \o (IF DictTruthy(db_stats) /\ ipc > 0
            THEN <<Reason("dup_ip", ipc, (W_DUP_IP * Min(4, ipc)) \div 2)>> ELSE <<>>)
        \o (IF DictTruthy(db_stats) /\ pbc > 0
            THEN <<Reason("prev_bans", pbc, Min(W_PREVIOUS_BANS, pbc * 2 * 10))>>
            ELSE <<>>)
        \o (IF DictTruthy(ip_info) /\ DictGet(ip_info, "is_datacenter", FALSE)
            THEN <<Reason("datacenter", 0, W_ASN_DATACENTER)>> ELSE <<>>)
        \o (IF DictTruthy(ip_info) /\ DictGet(ip_info, "is_vpn", FALSE)
            THEN <<Reason("vpn", 0, W_VPN)>> ELSE <<>>)
        \o (IF DictTruthy(ip_info) /\ DictGet(ip_info, "is_tor", FALSE)
            THEN <<Reason("tor", 0, W_TOR)>> ELSE <<>>)
        \o (IF DictTruthy(ip_info) /\ proxy_score # 0
            THEN <<Reason("proxy_score", proxy_score, proxy_score)>> ELSE <<>>)
        \o (IF honeypot_triggered
            THEN <<Reason("honeypot", 0, W_HONEYPOT)>> ELSE <<>>)
        \o (IF account_age_days < 1 THEN <<Reason("age_lt_1d", 0, W_ACCOUNT_AGE)>>
            ELSE IF account_age_days < 7
                 THEN <<Reason("age_lt_7d", 0, (W_ACCOUNT_AGE * 6) \div 10)>>
            ELSE <<>>)

\* A DNA loop that reports a matched subject once only.
RECURSIVE DnaLoop_once_per_subject(_, _, _)
DnaLoop_once_per_subject(current_profile, known_dna_profiles, n) ==
    IF n = 0 THEN [raised |-> FALSE, matches |-> <<>>]
    ELSE LET before == DnaLoop_once_per_subject(current_profile, known_dna_profiles, n - 1)
             prof == known_dna_profiles[n]
             sim == dna_similarity(current_profile,
                                   [typing |-> prof.typing, mouse |-> prof.mouse])
         IN  IF before.raised \/ sim.raised THEN [raised |-> TRUE, matches |-> <<>>]
             ELSE IF /\ OverThreshold(sim)
                     /\ \A k \in DOMAIN before.matches :
                           before.matches[k].discord_id # prof.discord_id
                  THEN [raised |-> FALSE,
                        matches |-> Append(before.matches,
                                           [discord_id |-> prof.discord_id,
                                            sim |-> Round3(sim)])]
             ELSE before

\* The DNA loop over known_dna_profiles[1..n]: whether dna_similarity raised,
\* and the matches found, in the order of the profiles.
RECURSIVE DnaLoop(_, _, _)
DnaLoop(current_profile, known_dna_profiles, n) ==
    IF n = 0 THEN [raised |-> FALSE, matches |-> <<>>]
    ELSE LET before == DnaLoop(current_profile, known_dna_profiles, n - 1)
             prof == known_dna_profiles[n]
             sim == dna_similarity(current_profile,
                                   [typing |-> prof.typing, mouse |-> prof.mouse])
         IN  IF before.raised \/ sim.raised THEN [raised |-> TRUE, matches |-> <<>>]
             ELSE IF OverThreshold(sim)
                  THEN [raised |-> FALSE,
                        matches |-> Append(before.matches,
                                           [discord_id |-> prof.discord_id,
                                            sim |-> Round3(sim)])]
             ELSE before

\* compute_risk without line 128's max and min.
compute_risk_unclamped(fp_rows, known_dna_profiles, ip_info, honeypot_triggered, account_age_days, social_scores, db_stats) ==
    LET signals == RiskSignals(ip_info, honeypot_triggered, account_age_days, db_stats)
        score == SumOver([i \in 1..Len(signals) |-> signals[i].add], Len(signals))
    IN  [raised |-> FALSE, risk_score |-> RoundHalfEven(score), reasons |-> signals,
         dna_matches |-> <<>>, computed_at |-> now]

\* compute_risk: raised (an exception leaves the function), or the
\* assessment; computed_at is int(time.time()) at the return.
compute_risk(fp_rows, known_dna_profiles, ip_info, honeypot_triggered, account_age_days, social_scores, db_stats) ==
    LET signals == RiskSignals(ip_info, honeypot_triggered, account_age_days, db_stats)
        current_profile == IF Len(fp_rows) > 0 THEN fp_rows[1].dna ELSE EmptyDict
        dna == IF DictTruthy(current_profile) /\ Len(known_dna_profiles) > 0
               THEN DnaLoop(current_profile, known_dna_profiles, Len(known_dna_profiles))
               ELSE [raised |-> FALSE, matches |-> <<>>]
        social == IF DictTruthy(social_scores)
                  THEN IF DictGet(social_scores, "is_isolated", FALSE)
                       THEN <<Reason("no_social", 0, W_SOCIAL_ISOLATION)>>
                       ELSE <<Reason("social_present", 0, 0)>>
                  ELSE <<>>
        reasons == signals
                   \o [i \in 1..Len(dna.matches) |->
                          [kind |-> "dna_match", n |-> dna.matches[i].sim,
                           add |-> W_DNA_MATCH, who |-> dna.matches[i].discord_id]]
                   \o social
        score == SumOver([i \in 1..Len(reasons) |-> reasons[i].add], Len(reasons))
    IN  [raised |-> dna.raised,
         risk_score |-> Max(0, Min(100, RoundHalfEven(score))),
         reasons |-> reasons,
         dna_matches |-> dna.matches,
         computed_at |-> now]

(***************************************************************************)
(* Texts.  json.dumps(v) is the text [kind |-> "json", v |-> v] and a plain *)
(* string s the text [kind |-> "str", v |-> s]; no client string of the    *)
(* model is itself the JSON text of an object.                             *)
(***************************************************************************)
JsonDumps(v) == [kind |-> "json", v |-> v]
Str(s) == [kind |-> "str", v |-> s]
JsonLoads(text) == text.v
TextEq(a, b) == a.kind = b.kind /\ a.v = b.v

\* HMAC-SHA256 as an injective function of key and message.
Hmac(key, msg) == <<"hmac", key, msg>>
VERIFY_SECRET == "verify_secret"

(***************************************************************************)
(* web.py                                                                  *)
(***************************************************************************)
\* lookup_ip_info's neutral result, and one result of the IP-intelligence
\* service: a datacenter VPN address.
NeutralIpInfo ==
    [is_datacenter |-> FALSE, is_vpn |-> FALSE, is_tor |-> FALSE, proxy_score |-> 0,
     asn |-> ""]
DatacenterVpnIpInfo ==
    [is_datacenter |-> TRUE, is_vpn |-> TRUE, is_tor |-> FALSE, proxy_score |-> 0,
     asn |-> ""]

\* A check_token_valid for which a token is expired from the second expires_at on.
check_token_valid_inclusive(tbl, token, ts) ==
    LET v == get_verification(tbl, token)
    IN  IF v = Null THEN <<FALSE, "token not found">>
        ELSE IF Val(v).used THEN <<FALSE, "token already used">>
        ELSE IF Truthy(Val(v).expires_at) /\ ts >= Val(Val(v).expires_at)
             THEN <<FALSE, "token expired">>
        ELSE <<TRUE, "">>

\* check_token_valid: <<valid, reason>>.
check_token_valid(tbl, token, ts) ==
    LET v == get_verification(tbl, token)
    IN  IF v = Null THEN <<FALSE, "token not found">>
        ELSE IF Val(v).used THEN <<FALSE, "token already used">>
        ELSE IF Truthy(Val(v).expires_at) /\ ts > Val(Val(v).expires_at)
             THEN <<FALSE, "token expired">>
        ELSE <<TRUE, "">>

\* POST /submit with body data = [fp, dna, honeypot] from address ip, for which
\* lookup_ip_info answers ip_info; the request is one the rate limiter of lines
\* 103-110 lets through (its window _ip_store is not part of the model).  A
\* request check_token_valid refuses is answered 400 and changes nothing.
\* post_submit below is the handler with its window and its answers.
submit(token, ip, data, ip_info) ==
    LET valid == check_token_valid(verifications, token, now)[1]
        payload_fp == JsonDumps([fp |-> data.fp, dna |-> data.dna, ip_info |-> ip_info])
    IN  /\ valid => Len(fingerprints) < MaxFingerprints
        /\ IF valid
           THEN /\ fingerprints' = save_fingerprint(fingerprints, token, payload_fp, ip,
                                                    ip_info.asn, "ua", data.honeypot, now)
                /\ inflight' = [inflight EXCEPT ![token] = @ + 1]
           ELSE UNCHANGED <<fingerprints, inflight>>
        /\ UNCHANGED <<now, clock_steps, verifications, dna_profiles, actions,
                       quarantined, guildVars, AUTO_BAN, ip_store, tasks, surgeVars>>

(***************************************************************************)
(* bot.py: the webhook                                                     *)
(***************************************************************************)
NewTask(token) ==
    [token |-> token, pc |-> "get_verification", discord_id_str |-> "", used |-> FALSE,
     fp_rows |-> <<>>, db_stats |-> EmptyDict, known_profiles |-> <<>>,
     member |-> FALSE, score |-> 0, reasons |-> <<>>, fx |-> <<>>]

\* hmac.compare_digest(expected, sig)
signature_ok(token, sig) == Hmac(VERIFY_SECRET, token) = sig

\* A body without a token, or with an empty one.
NoToken == 0
\* An X-Signature header with a character outside ASCII, on which
\* hmac.compare_digest raises TypeError.
NonAsciiSignature == <<"non_ascii">>

\* The answer of handle_verify_request to the body {"token": token} and the
\* header X-Signature: sig, lines 86-96: 400 without a token, 500 when
\* compare_digest raises (the except of line 94), 403 on a mismatch, else 200.
verify_response(token, sig) ==
    IF token = NoToken THEN [status |-> 400, ok |-> FALSE, error |-> "no token"]
    ELSE IF sig = NonAsciiSignature
         THEN [status |-> 500, ok |-> FALSE,
               error |-> "comparing strings with non-ASCII characters is not supported"]
    ELSE IF ~signature_ok(token, sig)
         THEN [status |-> 403, ok |-> FALSE, error |-> "invalid signature"]
    ELSE [status |-> 200, ok |-> TRUE, error |-> ""]

\* handle_verify_request for the body {"token": token} and the header
\* X-Signature: sig: only the answer 200 comes after
\* asyncio.create_task(process_verification_token(token)).
handle_verify_request(token, sig) ==
    /\ tasks' = IF verify_response(token, sig).status = 200
                THEN Append(tasks, NewTask(token)) ELSE tasks
    /\ UNCHANGED <<now, clock_steps, storeVars, guildVars, AUTO_BAN, ip_store, surgeVars>>

\* web.py's notify_bot: the POST of a submission reaches the webhook.
notify_bot(token) ==
    /\ inflight[token] > 0
    /\ inflight' = [inflight EXCEPT ![token] = @ - 1]
    /\ handle_verify_request(token, Hmac(VERIFY_SECRET, token))

\* A POST to the webhook that web.py did not sign.
ForgedSignatures(token) ==
    {<<>>, Hmac("guessed_secret", token), Hmac(VERIFY_SECRET, 0)}
forged_request(token, sig) ==
    /\ handle_verify_request(token, sig)
    /\ UNCHANGED inflight

(***************************************************************************)
(* bot.py: process_verification_token, one action per await                *)
(***************************************************************************)
\* The store statements and platform calls a run has made so far, and the
\* platform calls that raised, are recorded in order in the task's fx.
Step(p, pc, fx) == [tasks[p] EXCEPT !.pc = pc, !.fx = tasks[p].fx \o fx]
\* The coroutine returns: its frame is dropped.
Return(p, fx) ==
    [tasks[p] EXCEPT !.pc = "done", !.fx = tasks[p].fx \o fx, !.fp_rows = <<>>,
                     !.db_stats = EmptyDict, !.known_profiles = <<>>, !.reasons = <<>>]

\* The validity check without its lines 124-127.
bot_validate_no_replay_guard(v, now_ts) ==
    IF v = Null THEN "not_found"
    ELSE IF Truthy(Val(v).expires_at) /\ now_ts > Val(Val(v).expires_at) THEN "token_expired"
    ELSE "ok"

\* Lines 115-127 on the row v read at line 114 and now_ts: where the run goes.
bot_validate(v, now_ts) ==
    IF v = Null THEN "not_found"
    ELSE IF Truthy(Val(v).expires_at) /\ now_ts > Val(Val(v).expires_at) THEN "token_expired"
    ELSE IF Val(v).used THEN "token_reuse"
    ELSE "ok"

p_get_verification(p) ==
    LET t == tasks[p]
        v == get_verification(verifications, t.token)
        outcome == bot_validate(v, now)
    IN  /\ t.pc = "get_verification"
        /\ tasks' = [tasks EXCEPT ![p] =
              IF outcome = "not_found" THEN Return(p, <<>>)
              ELSE [Step(p, IF outcome = "ok" THEN "fetch_fingerprints"
                            ELSE IF outcome = "token_expired" THEN "add_token_expired"
                            ELSE "add_token_reuse", <<>>)
                       EXCEPT !.discord_id_str = Val(v).discord_id, !.used = Val(v).used]]
        /\ UNCHANGED <<now, clock_steps, storeVars, guildVars, AUTO_BAN, ip_store, inflight, surgeVars>>

\* A rejection that also consumes the token.
p_add_token_rejected_consuming(p) ==
    LET t == tasks[p]
        kind == IF t.pc = "add_token_expired" THEN "token_expired" ELSE "token_reuse"
    IN  /\ t.pc \in {"add_token_expired", "add_token_reuse"}
        /\ actions' = add_action(actions, t.discord_id_str, kind, [token |-> t.token], now)
        /\ verifications' = mark_token_used(verifications, t.token, now)
        /\ tasks' = [tasks EXCEPT ![p] = Return(p, <<kind>>)]
        /\ UNCHANGED <<now, clock_steps, fingerprints, dna_profiles,
                       quarantined, guildVars, AUTO_BAN, ip_store, inflight, surgeVars>>

\* Lines 122 and 126: add_action(discord_id_str, 'token_expired' | 'token_reuse', token).
p_add_token_rejected(p) ==
    LET t == tasks[p]
        kind == IF t.pc = "add_token_expired" THEN "token_expired" ELSE "token_reuse"
    IN  /\ t.pc \in {"add_token_expired", "add_token_reuse"}
        /\ actions' = add_action(actions, t.discord_id_str, kind, [token |-> t.token], now)
        /\ tasks' = [tasks EXCEPT ![p] = Return(p, <<kind>>)]
        /\ UNCHANGED <<now, clock_steps, verifications, fingerprints, dna_profiles,
                       quarantined, guildVars, AUTO_BAN, ip_store, inflight, surgeVars>>

\* Lines 132-150: the fp_obj of a fingerprints row.
fp_obj(r) ==
    LET parsed == JsonLoads(r.fp)
    IN  [fp |-> IF parsed.fp # "" THEN Str(parsed.fp) ELSE JsonDumps(parsed),
         ip |-> r.ip, asn |-> r.asn, ua |-> r.ua, honeypot |-> r.honeypot,
         dna |-> parsed.dna, ip_info |-> parsed.ip_info]

\* Line 130, then 131-156.
p_fetch_fingerprints(p) ==
    LET t == tasks[p]
    IN  /\ t.pc = "fetch_fingerprints"
        /\ \E rows \in fetch_fingerprints_by_token(fingerprints, t.token) :
              tasks' = [tasks EXCEPT ![p] =
                  [Step(p, IF Len(rows) > 0 THEN "db_stats" ELSE "fetch_all_dna_profiles",
                        <<>>)
                     EXCEPT !.fp_rows = [k \in 1..Len(rows) |-> fp_obj(rows[k])],
                            !.db_stats = [same_ip_count |-> 0, same_fp_count |-> 0,
                                          previously_banned_count |-> 0]]]
        /\ UNCHANGED <<now, clock_steps, storeVars, guildVars, AUTO_BAN, ip_store, inflight, surgeVars>>

\* reason LIKE '%needle%' on the reason the bot writes for a ban,
\* "auto-ban score=<score>": the empty string is part of every text, and of
\* the addresses and fingerprints of the model only "ban" is part of this one.
ReasonLike(reason, needle) == needle.kind = "str" /\ needle.v \in {"", "ban"}

\* Lines 158-177: the three SELECTs on one connection, read together.
db_stats_of(cur_fp, token) ==
    LET ip_val == cur_fp.ip
        fp_val == cur_fp.fp
        same_ip == {fingerprints[i].token : i \in
                      {j \in DOMAIN fingerprints : /\ fingerprints[j].ip = ip_val
                                                   /\ fingerprints[j].token # token}}
        same_fp == {fingerprints[i].token : i \in
                      {j \in DOMAIN fingerprints : /\ TextEq(fingerprints[j].fp, fp_val)
                                                   /\ fingerprints[j].token # token}}
        bans == {i \in DOMAIN actions :
                    /\ actions[i].action = "ban"
                    /\ \/ ReasonLike(actions[i].reason, Str(ip_val))
                       \/ ReasonLike(actions[i].reason, fp_val)}
    IN  [same_ip_count |-> IF ip_val # "" THEN Cardinality(same_ip) ELSE 0,
         same_fp_count |-> Cardinality(same_fp),
         previously_banned_count |-> Cardinality(bans)]

p_db_stats(p) ==
    LET t == tasks[p]
    IN  /\ t.pc = "db_stats"
        /\ tasks' = [tasks EXCEPT ![p] =
              [Step(p, "fetch_all_dna_profiles", <<>>)
                 EXCEPT !.db_stats = db_stats_of(t.fp_rows[1], t.token)]]
        /\ UNCHANGED <<now, clock_steps, storeVars, guildVars, AUTO_BAN, ip_store, inflight, surgeVars>>

\* (discord.utils.utcnow() - member.created_at).days of the accounts of the
\* model: u1 is an old account, u2 was created today.
AccountAgeDays(discord_id) == IF discord_id = "u1" THEN 30 ELSE 0

\* Lines 182-187: the stored ip_info of the current row, else the neutral one.
ip_info_of(fp_rows) ==
    IF Len(fp_rows) > 0 /\ DictTruthy(fp_rows[1].ip_info) THEN fp_rows[1].ip_info
    ELSE [is_datacenter |-> FALSE, is_vpn |-> FALSE, is_tor |-> FALSE,
          proxy_score |-> 0, asn |-> ""]

\* Line 189: any(r.get('honeypot') for r in fp_rows)
honeypot_of(fp_rows) == \E k \in 1..Len(fp_rows) : fp_rows[k].honeypot

\* Lines 196-202 for a resolved guild.
risk_of(t, known_profiles, member) ==
    compute_risk(t.fp_rows, known_profiles, ip_info_of(t.fp_rows), honeypot_of(t.fp_rows),
                 IF member THEN Max(0, AccountAgeDays(t.discord_id_str)) ELSE 9999,
                 EmptyDict, t.db_stats)

\* A run that consumes the token before it asks for the guild.
p_fetch_all_dna_profiles_consuming(p) ==
    LET t == tasks[p]
        known_profiles == fetch_all_dna_profiles(dna_profiles)
        member == t.discord_id_str \in members
        risk == risk_of(t, known_profiles, member)
    IN  /\ t.pc = "fetch_all_dna_profiles"
        /\ \E guild \in BOOLEAN :
              tasks' = [tasks EXCEPT ![p] =
                  IF ~guild \/ risk.raised THEN Return(p, <<>>)
                  ELSE [Step(p, "mark_token_used", <<>>)
                          EXCEPT !.known_profiles = known_profiles, !.member = member,
                                 !.score = risk.risk_score, !.reasons = risk.reasons]]
        /\ verifications' = mark_token_used(verifications, t.token, now)
        /\ UNCHANGED <<now, clock_steps, fingerprints, dna_profiles, actions, quarantined,
                       guildVars, AUTO_BAN, ip_store, inflight, surgeVars>>

\* Line 180, then 182-204: bot.get_guild answers the guild or None; an
\* exception of compute_risk leaves through the except of line 257.
p_fetch_all_dna_profiles(p) ==
    LET t == tasks[p]
        known_profiles == fetch_all_dna_profiles(dna_profiles)
        member == t.discord_id_str \in members
        risk == risk_of(t, known_profiles, member)
    IN  /\ t.pc = "fetch_all_dna_profiles"
        /\ \E guild \in BOOLEAN :
              tasks' = [tasks EXCEPT ![p] =
                  IF ~guild \/ risk.raised THEN Return(p, <<>>)
                  ELSE [Step(p, "mark_token_used", <<>>)
                          EXCEPT !.known_profiles = known_profiles, !.member = member,
                                 !.score = risk.risk_score, !.reasons = risk.reasons]]
        /\ UNCHANGED <<now, clock_steps, storeVars, guildVars, AUTO_BAN, ip_store, inflight, surgeVars>>

\* A run that goes on to its decision without the UPDATE of line 207.
p_mark_token_used_left_out(p) ==
    LET t == tasks[p]
    IN  /\ t.pc = "mark_token_used"
        /\ \E role \in BOOLEAN :
              tasks' = [tasks EXCEPT ![p] =
                  Step(p, IF ~t.member THEN "add_verify_no_member"
                          ELSE IF t.score >= QUARANTINE_THRESHOLD
                               THEN IF role THEN "add_roles_qrole" ELSE "quarantine_member"
                          ELSE IF role THEN "add_roles_vrole"
                               ELSE "set_verification_status",
                       <<>>)]
        /\ UNCHANGED <<now, clock_steps, storeVars, guildVars, AUTO_BAN, ip_store, inflight, surgeVars>>

\* Line 207, then 210-218 and 221 / 240: guild.get_role answers the role or
\* None.
p_mark_token_used(p) ==
    LET t == tasks[p]
    IN  /\ t.pc = "mark_token_used"
        /\ verifications' = mark_token_used(verifications, t.token, now)
        /\ \E role \in BOOLEAN :
              tasks' = [tasks EXCEPT ![p] =
                  Step(p, IF ~t.member THEN "add_verify_no_member"
                          ELSE IF t.score >= QUARANTINE_THRESHOLD
                               THEN IF role THEN "add_roles_qrole" ELSE "quarantine_member"
                          ELSE IF role THEN "add_roles_vrole"
                               ELSE "set_verification_status",
                       <<"mark_token_used">>)]
        /\ UNCHANGED <<now, clock_steps, fingerprints, dna_profiles, actions, quarantined,
                       guildVars, AUTO_BAN, ip_store, inflight, surgeVars>>

\* A no-member branch that also quarantines the subject.
p_add_verify_no_member_quarantining(p) ==
    LET t == tasks[p]
    IN  /\ t.pc = "add_verify_no_member"
        /\ actions' = add_action(actions, t.discord_id_str, "verify_no_member",
                                 [token |-> t.token, score |-> t.score], now)
        /\ quarantined' = quarantine_member(quarantined, t.discord_id_str, now, now)
        /\ tasks' = [tasks EXCEPT ![p] = Return(p, <<"verify_no_member">>)]
        /\ UNCHANGED <<now, clock_steps, verifications, fingerprints, dna_profiles,
                       guildVars, AUTO_BAN, ip_store, inflight, surgeVars>>

\* Lines 214-216.
p_add_verify_no_member(p) ==
    LET t == tasks[p]
    IN  /\ t.pc = "add_verify_no_member"
        /\ actions' = add_action(actions, t.discord_id_str, "verify_no_member",
                                 [token |-> t.token, score |-> t.score], now)
        /\ tasks' = [tasks EXCEPT ![p] = Return(p, <<"verify_no_member">>)]
        /\ UNCHANGED <<now, clock_steps, verifications, fingerprints, dna_profiles,
                       quarantined, guildVars, AUTO_BAN, ip_store, inflight, surgeVars>>

\* member.add_roles(role) and member.ban(): the platform applies the call, or
\* raises (permission error, transient failure, member gone).
platform_call_ok(discord_id) == IF discord_id \in members THEN BOOLEAN ELSE {FALSE}

\* Line 222; a failure leaves through the except of line 235.
p_add_roles_qrole(p) ==
    LET t == tasks[p]
    IN  /\ t.pc = "add_roles_qrole"
        /\ \E ok \in platform_call_ok(t.discord_id_str) :
              /\ roles' = IF ok THEN [roles EXCEPT ![t.discord_id_str] = @ \cup {"quarantine"}]
                          ELSE roles
              /\ tasks' = [tasks EXCEPT ![p] =
                     IF ok THEN Step(p, "quarantine_member", <<"add_roles_qrole">>)
                     ELSE Return(p, <<"add_roles_raised">>)]
        /\ UNCHANGED <<now, clock_steps, storeVars, members, banned, AUTO_BAN, ip_store, inflight, surgeVars>>

\* Lines 223-224.
p_quarantine_member(p) ==
    LET t == tasks[p]
        until_ts == now + QUARANTINE_HOURS * 3600
    IN  /\ t.pc = "quarantine_member"
        /\ quarantined' = quarantine_member(quarantined, t.discord_id_str, until_ts, now)
        /\ tasks' = [tasks EXCEPT ![p] = Step(p, "add_quarantine_auto", <<"quarantine_member">>)]
        /\ UNCHANGED <<now, clock_steps, verifications, fingerprints, dna_profiles, actions,
                       guildVars, AUTO_BAN, ip_store, inflight, surgeVars>>

\* Lines 225-228 with the test of line 228 reduced to score >= 95.
p_add_quarantine_auto_ungated(p) ==
    LET t == tasks[p]
    IN  /\ t.pc = "add_quarantine_auto"
        /\ actions' = add_action(actions, t.discord_id_str, "quarantine_auto",
                                 [score |-> t.score, reasons |-> t.reasons], now)
        /\ tasks' = [tasks EXCEPT ![p] =
              IF t.score >= AUTO_BAN_SCORE
              THEN Step(p, "ban", <<"quarantine_auto">>)
              ELSE Return(p, <<"quarantine_auto">>)]
        /\ UNCHANGED <<now, clock_steps, verifications, fingerprints, dna_profiles,
                       quarantined, guildVars, AUTO_BAN, ip_store, inflight, surgeVars>>

\* Lines 225-228.
p_add_quarantine_auto(p) ==
    LET t == tasks[p]
    IN  /\ t.pc = "add_quarantine_auto"
        /\ actions' = add_action(actions, t.discord_id_str, "quarantine_auto",
                                 [score |-> t.score, reasons |-> t.reasons], now)
        /\ tasks' = [tasks EXCEPT ![p] =
              IF AUTO_BAN /\ t.score >= AUTO_BAN_SCORE
              THEN Step(p, "ban", <<"quarantine_auto">>)
              ELSE Return(p, <<"quarantine_auto">>)]
        /\ UNCHANGED <<now, clock_steps, verifications, fingerprints, dna_profiles,
                       quarantined, guildVars, AUTO_BAN, ip_store, inflight, surgeVars>>

\* Line 230; a failure leaves through the except of line 233.
p_ban(p) ==
    LET t == tasks[p]
    IN  /\ t.pc = "ban"
        /\ \E ok \in platform_call_ok(t.discord_id_str) :
              /\ members' = IF ok THEN members \ {t.discord_id_str} ELSE members
              /\ banned' = IF ok THEN banned \cup {t.discord_id_str} ELSE banned
              /\ roles' = IF ok THEN [roles EXCEPT ![t.discord_id_str] = {}] ELSE roles
              /\ tasks' = [tasks EXCEPT ![p] =
                     IF ok THEN Step(p, "add_ban", <<"ban">>)
                     ELSE Return(p, <<"ban_raised">>)]
        /\ UNCHANGED <<now, clock_steps, storeVars, AUTO_BAN, ip_store, inflight, surgeVars>>

\* Lines 231-232.
p_add_ban(p) ==
    LET t == tasks[p]
    IN  /\ t.pc = "add_ban"
        /\ actions' = add_action(actions, t.discord_id_str, "ban",
                                 [score |-> t.score], now)
        /\ tasks' = [tasks EXCEPT ![p] = Return(p, <<"add_ban">>)]
        /\ UNCHANGED <<now, clock_steps, verifications, fingerprints, dna_profiles,
                       quarantined, guildVars, AUTO_BAN, ip_store, inflight, surgeVars>>

\* Line 241; a failure leaves through the except of line 255.
p_add_roles_vrole(p) ==
    LET t == tasks[p]
    IN  /\ t.pc = "add_roles_vrole"
        /\ \E ok \in platform_call_ok(t.discord_id_str) :
              /\ roles' = IF ok THEN [roles EXCEPT ![t.discord_id_str] = @ \cup {"verified"}]
                          ELSE roles
              /\ tasks' = [tasks EXCEPT ![p] =
                     IF ok THEN Step(p, "set_verification_status", <<"add_roles_vrole">>)
                     ELSE Return(p, <<"add_roles_raised">>)]
        /\ UNCHANGED <<now, clock_steps, storeVars, members, banned, AUTO_BAN, ip_store, inflight, surgeVars>>

\* Line 242.
p_set_verification_status(p) ==
    LET t == tasks[p]
    IN  /\ t.pc = "set_verification_status"
        /\ verifications' = set_verification_status(verifications, t.token, "verified", now)
        /\ tasks' = [tasks EXCEPT ![p] = Step(p, "add_verified", <<"set_verification_status">>)]
        /\ UNCHANGED <<now, clock_steps, fingerprints, dna_profiles, actions, quarantined,
                       guildVars, AUTO_BAN, ip_store, inflight, surgeVars>>

\* Lines 246-251: the profile is stored when known_profiles, read at line
\* 180, holds none of the member and the current row carries a dna.
stores_profile(t) ==
    /\ \A k \in 1..Len(t.known_profiles) : t.known_profiles[k].discord_id # t.discord_id_str
    /\ Len(t.fp_rows) > 0
    /\ DictTruthy(t.fp_rows[1].dna)

\* Lines 243-251.
p_add_verified(p) ==
    LET t == tasks[p]
    IN  /\ t.pc = "add_verified"
        /\ actions' = add_action(actions, t.discord_id_str, "verified",
                                 [score |-> t.score, reasons |-> t.reasons], now)
        /\ tasks' = [tasks EXCEPT ![p] =
              IF stores_profile(t) THEN Step(p, "save_dna_profile", <<"verified">>)
              ELSE Return(p, <<"verified">>)]
        /\ UNCHANGED <<now, clock_steps, verifications, fingerprints, dna_profiles,
                       quarantined, guildVars, AUTO_BAN, ip_store, inflight, surgeVars>>

\* Lines 252-254.
p_save_dna_profile(p) ==
    LET t == tasks[p]
        dna == t.fp_rows[1].dna
    IN  /\ t.pc = "save_dna_profile"
        /\ dna_profiles' = save_dna_profile(dna_profiles, t.discord_id_str,
                                            DictGet(dna, "typing", <<>>),
                                            DictGet(dna, "mouse", <<>>), now)
        /\ tasks' = [tasks EXCEPT ![p] = Return(p, <<"save_dna_profile">>)]
        /\ UNCHANGED <<now, clock_steps, verifications, fingerprints, actions, quarantined,
                       guildVars, AUTO_BAN, ip_store, inflight, surgeVars>>

(***************************************************************************)
(* bot.py: events, commands and loops                                      *)
(***************************************************************************)
\* on_member_join: a join to another guild returns at line 307; a join to the
\* configured guild is counted at line 308, and line 309 then raises NameError
\* (bot.py does not import secrets), which ends the handler before
\* db.create_verification and the welcome message.
on_member_join(discord_id, configured_guild) ==
    /\ discord_id \notin members
    /\ Len(recent_joins) < MaxJoins
    /\ members' = IF configured_guild THEN members \cup {discord_id} ELSE members
    /\ recent_joins' = IF configured_guild THEN Append(recent_joins, now) ELSE recent_joins
    /\ UNCHANGED <<now, clock_steps, storeVars, roles, banned, AUTO_BAN, ip_store, inflight, tasks,
                   surge_mode, mod_log_surge>>

\* !verifynow <member>: line 355 raises NameError (secrets), which ends the
\* command before db.create_verification and the messages.
verifynow(discord_id) ==
    /\ discord_id \in members
    /\ UNCHANGED vars

RECURSIVE Evict_inclusive(_, _)
\* An eviction that also drops a join exactly `window` seconds old.
Evict_inclusive(joins, limit) ==
    IF joins # <<>> /\ Head(joins) <= limit THEN Evict_inclusive(Tail(joins), limit)
    ELSE joins

RECURSIVE Evict(_, _)
\* Lines 277-278.
Evict(joins, limit) ==
    IF joins # <<>> /\ Head(joins) < limit THEN Evict(Tail(joins), limit) ELSE joins

\* A detector that notifies at every tick at which the window holds
\* SURGE_JOINS joins, whatever surge_mode is.
surge_check_unlatched ==
    LET window == SURGE_WINDOW
        kept == Evict(recent_joins, now - window)
    IN  /\ recent_joins' = kept
        /\ IF Len(kept) >= SURGE_JOINS
           THEN /\ surge_mode' = TRUE
                /\ mod_log_surge' = Append(mod_log_surge, "surge_detected")
           ELSE IF Len(kept) = 0 /\ surge_mode
           THEN /\ surge_mode' = FALSE
                /\ mod_log_surge' = Append(mod_log_surge, "surge_ended")
           ELSE UNCHANGED <<surge_mode, mod_log_surge>>
        /\ UNCHANGED <<now, clock_steps, storeVars, guildVars, AUTO_BAN, ip_store, inflight, tasks>>

\* surge_check, one iteration of the loop.
surge_check ==
    LET window == SURGE_WINDOW
        kept == Evict(recent_joins, now - window)
    IN  /\ recent_joins' = kept
        /\ IF Len(kept) >= SURGE_JOINS /\ ~surge_mode
           THEN /\ surge_mode' = TRUE
                /\ mod_log_surge' = Append(mod_log_surge, "surge_detected")
           ELSE IF Len(kept) = 0 /\ surge_mode
           THEN /\ surge_mode' = FALSE
                /\ mod_log_surge' = Append(mod_log_surge, "surge_ended")
           ELSE UNCHANGED <<surge_mode, mod_log_surge>>
        /\ UNCHANGED <<now, clock_steps, storeVars, guildVars, AUTO_BAN, ip_store, inflight, tasks>>

\* The loop object of surge_check: the second of its next iteration.  The
\* first one runs when on_ready starts the loop.
SurgeLoop == [pc |-> "surge_check", next |-> 1]

\* surge_check as tasks.loop(seconds=10) runs it: an iteration once the
\* second it is due has come, the next one due SURGE_PERIOD seconds later.
surge_check_loop ==
    LET window == SURGE_WINDOW
        kept == Evict(recent_joins, now - window)
    IN  /\ tasks[1].next <= now
        /\ tasks' = <<[tasks[1] EXCEPT !.next = @ + SURGE_PERIOD]>>
        /\ recent_joins' = kept
        /\ IF Len(kept) >= SURGE_JOINS /\ ~surge_mode
           THEN /\ surge_mode' = TRUE
                /\ mod_log_surge' = Append(mod_log_surge, "surge_detected")
           ELSE IF Len(kept) = 0 /\ surge_mode
           THEN /\ surge_mode' = FALSE
                /\ mod_log_surge' = Append(mod_log_surge, "surge_ended")
           ELSE UNCHANGED <<surge_mode, mod_log_surge>>
        /\ UNCHANGED <<now, clock_steps, storeVars, guildVars, AUTO_BAN, ip_store, inflight>>

(***************************************************************************)
(* The environment: issuers of tokens, the clock, the guild                *)
(***************************************************************************)
\* db.create_verification called with a fresh token, as lines 309-310 and
\* 355-356 are written to call it: the tokens of the model are numbered in the
\* order they are issued.
issue(discord_id, expires_seconds) ==
    /\ Len(verifications) < MaxTokens
    /\ verifications' = create_verification(verifications, Len(verifications) + 1,
                                            discord_id, expires_seconds, now)
    /\ UNCHANGED <<now, clock_steps, fingerprints, dna_profiles, actions, quarantined,
                   guildVars, AUTO_BAN, ip_store, inflight, tasks, surgeVars>>

\* time.time() moves on by d seconds.
advance_clock(d, max_steps) ==
    /\ clock_steps < max_steps
    /\ now' = now + d
    /\ clock_steps' = clock_steps + 1
    /\ UNCHANGED <<storeVars, guildVars, AUTO_BAN, ip_store, inflight, tasks, surgeVars>>

\* A member leaves the guild.
member_leaves(discord_id) ==
    /\ discord_id \in members
    /\ members' = members \ {discord_id}
    /\ roles' = [roles EXCEPT ![discord_id] = {}]
    /\ UNCHANGED <<now, clock_steps, storeVars, banned, AUTO_BAN, ip_store, inflight,
                   tasks, surgeVars>>

(***************************************************************************)
(* The verification lifecycle                                              *)
(***************************************************************************)
\* The members tokens are issued to.
Subjects == {"u1"}
\* The submissions of the lifecycle, as <<body, ip_info>>: a plain one with
\* behavioural vectors (score 0), one from a datacenter VPN address (score 60,
\* the threshold), one that touched the honeypot from such an address (100).
Submissions ==
    {<<[fp |-> "fpA", dna |-> [typing |-> <<3, 4>>, mouse |-> <<3, 4>>], honeypot |-> FALSE],
       NeutralIpInfo>>,
     <<[fp |-> "fpA", dna |-> EmptyDict, honeypot |-> FALSE], DatacenterVpnIpInfo>>,
     <<[fp |-> "", dna |-> EmptyDict, honeypot |-> TRUE], DatacenterVpnIpInfo>>}
\* The clock steps of the lifecycle: a token's lifetime, and a second more.
LifecycleSteps == {TOKEN_TTL, TOKEN_TTL + 1}

Init ==
    /\ now = 1
    /\ clock_steps = 0
    /\ verifications = <<>>
    /\ fingerprints = <<>>
    /\ dna_profiles = <<>>
    /\ actions = <<>>
    /\ quarantined = <<>>
    /\ members = DiscordIds
    /\ roles = [d \in DiscordIds |-> {}]
    /\ banned = {}
    /\ AUTO_BAN \in BOOLEAN
    /\ ip_store = [a \in Addresses |-> <<>>]
    /\ inflight = [t \in TokenIds |-> 0]
    /\ tasks = <<>>
    /\ recent_joins = <<>>
    /\ surge_mode = FALSE
    /\ mod_log_surge = <<>>

Next ==
    \/ \E d \in Subjects, ttl \in {0, TOKEN_TTL} : issue(d, ttl)
    \/ \E d \in LifecycleSteps : advance_clock(d, MaxClockSteps)
    \/ \E d \in Subjects : member_leaves(d)
    \/ \E t \in TokenIds, s \in Submissions : submit(t, "ip1", s[1], s[2])
    \/ \E t \in TokenIds : notify_bot(t)
    \/ \E t \in TokenIds : \E sig \in ForgedSignatures(t) : forged_request(t, sig)
    \/ \E p \in DOMAIN tasks : p_get_verification(p)
    \/ \E p \in DOMAIN tasks : p_add_token_rejected(p)
    \/ \E p \in DOMAIN tasks : p_fetch_fingerprints(p)
    \/ \E p \in DOMAIN tasks : p_db_stats(p)
    \/ \E p \in DOMAIN tasks : p_fetch_all_dna_profiles(p)
    \/ \E p \in DOMAIN tasks : p_mark_token_used(p)
    \/ \E p \in DOMAIN tasks : p_add_verify_no_member(p)
    \/ \E p \in DOMAIN tasks : p_add_roles_qrole(p)
    \/ \E p \in DOMAIN tasks : p_quarantine_member(p)
    \/ \E p \in DOMAIN tasks : p_add_quarantine_auto(p)
    \/ \E p \in DOMAIN tasks : p_ban(p)
    \/ \E p \in DOMAIN tasks : p_add_ban(p)
    \/ \E p \in DOMAIN tasks : p_add_roles_vrole(p)
    \/ \E p \in DOMAIN tasks : p_set_verification_status(p)
    \/ \E p \in DOMAIN tasks : p_add_verified(p)
    \/ \E p \in DOMAIN tasks : p_save_dna_profile(p)

Spec == Init /\ [][Next]_vars

(***************************************************************************)
(* Joins, re-issues and the surge detector                                 *)
(***************************************************************************)
InitJoin ==
    /\ now = 1
    /\ clock_steps = 0
    /\ verifications = <<>>
    /\ fingerprints = <<>>
    /\ dna_profiles = <<>>
    /\ actions = <<>>
    /\ quarantined = <<>>
    /\ members \in SUBSET DiscordIds
    /\ roles = [d \in DiscordIds |-> {}]
    /\ banned = {}
    /\ AUTO_BAN \in BOOLEAN
    /\ ip_store = [a \in Addresses |-> <<>>]
    /\ inflight = [t \in TokenIds |-> 0]
    /\ tasks = <<>>
    /\ recent_joins = <<>>
    /\ surge_mode = FALSE
    /\ mod_log_surge = <<>>

NextJoin ==
    \/ \E d \in DiscordIds, g \in BOOLEAN : on_member_join(d, g)
    \/ \E d \in DiscordIds : verifynow(d)
    \/ \E d \in DiscordIds : member_leaves(d)
    \/ surge_check
    \/ advance_clock(SURGE_PERIOD, MaxSurgeSteps)

SpecJoin == InitJoin /\ [][NextJoin]_vars

(***************************************************************************)
(* The surge detector on its schedule                                      *)
(***************************************************************************)
\* Time passes, once the iteration of surge_check due now has run.
time_passes ==
    /\ tasks[1].next > now
    /\ advance_clock(SurgeClockStep, MaxSurgeClockSteps)

InitSurge ==
    /\ now = 1
    /\ clock_steps = 0
    /\ verifications = <<>>
    /\ fingerprints = <<>>
    /\ dna_profiles = <<>>
    /\ actions = <<>>
    /\ quarantined = <<>>
    /\ members = {}
    /\ roles = [d \in DiscordIds |-> {}]
    /\ banned = {}
    /\ AUTO_BAN = FALSE
    /\ ip_store = [a \in Addresses |-> <<>>]
    /\ inflight = <<>>
    /\ tasks = <<SurgeLoop>>
    /\ recent_joins = <<>>
    /\ surge_mode = FALSE
    /\ mod_log_surge = <<>>

NextSurge ==
    \/ \E d \in DiscordIds : now <= LastJoinSecond /\ on_member_join(d, TRUE)
    \/ \E d \in DiscordIds : member_leaves(d)
    \/ surge_check_loop
    \/ time_passes

\* The loop runs its iterations on time and the clock does not stop before
\* the last second of the model, by which every join up to LastJoinSecond has
\* left the window.
SpecSurge ==
    InitSurge /\ [][NextSurge]_vars /\ WF_vars(surge_check_loop) /\ WF_vars(time_passes)

(***************************************************************************)
(* Two tokens of one subject, both submitted with behavioural vectors      *)
(***************************************************************************)
ProfileTokens == 1..MaxProfileTokens
\* A submission with typing and mouse vectors from a residential address.
ProfileSubmission ==
    <<[fp |-> "fpA", dna |-> [typing |-> <<3, 4>>, mouse |-> <<3, 4>>], honeypot |-> FALSE],
      NeutralIpInfo>>

\* The subject u1 holds ProfileTokens, all issued at second 1.
InitProfile ==
    /\ now = 1
    /\ clock_steps = 0
    /\ verifications =
          [t \in ProfileTokens |-> create_verification(<<>>, t, "u1", TOKEN_TTL, 1)[1]]
    /\ fingerprints = <<>>
    /\ dna_profiles = <<>>
    /\ actions = <<>>
    /\ quarantined = <<>>
    /\ members = DiscordIds
    /\ roles = [d \in DiscordIds |-> {}]
    /\ banned = {}
    /\ AUTO_BAN = FALSE
    /\ ip_store = [a \in Addresses |-> <<>>]
    /\ inflight = [t \in ProfileTokens |-> 0]
    /\ tasks = <<>>
    /\ recent_joins = <<>>
    /\ surge_mode = FALSE
    /\ mod_log_surge = <<>>

NextProfile ==
    \/ \E t \in ProfileTokens : submit(t, "ip1", ProfileSubmission[1], ProfileSubmission[2])
    \/ \E t \in ProfileTokens : notify_bot(t)
    \/ \E p \in DOMAIN tasks : p_get_verification(p)
    \/ \E p \in DOMAIN tasks : p_add_token_rejected(p)
    \/ \E p \in DOMAIN tasks : p_fetch_fingerprints(p)
    \/ \E p \in DOMAIN tasks : p_db_stats(p)
    \/ \E p \in DOMAIN tasks : p_fetch_all_dna_profiles(p)
    \/ \E p \in DOMAIN tasks : p_mark_token_used(p)
    \/ \E p \in DOMAIN tasks : p_add_roles_vrole(p)
    \/ \E p \in DOMAIN tasks : p_set_verification_status(p)
    \/ \E p \in DOMAIN tasks : p_add_verified(p)
    \/ \E p \in DOMAIN tasks : p_save_dna_profile(p)

SpecProfile == InitProfile /\ [][NextProfile]_vars

(***************************************************************************)
(* Calls of detection.compute_risk                                         *)
(***************************************************************************)
\* In this specification tasks holds callers of compute_risk: the arguments,
\* and the value and the time of each call made with them so far.
RiskCaller(args) == [pc |-> "compute_risk", args |-> args, results |-> <<>>, at |-> <<>>]

\* A known profile equal to the submitted vectors (similarity 1), one at a
\* right angle to them (similarity 0), one of another length (np.dot raises).
SameProfile(d) == [discord_id |-> d, typing |-> <<3, 4>>, mouse |-> <<3, 4>>]
OtherProfile(d) == [discord_id |-> d, typing |-> <<4, -3>>, mouse |-> <<4, -3>>]
LongProfile(d) == [discord_id |-> d, typing |-> <<1, 0, 0>>, mouse |-> <<3, 4>>]
RiskRow(dna) == [fp |-> Str("fpA"), ip |-> "ip1", asn |-> "", ua |-> "ua",
                 honeypot |-> FALSE, dna |-> dna, ip_info |-> EmptyDict]
SubmittedDna == [typing |-> <<3, 4>>, mouse |-> <<3, 4>>]

\* <<fp_rows, known_dna_profiles>>
RiskProfileInputs ==
    {<<<<>>, <<SameProfile("u1")>>>>,
     <<<<RiskRow(EmptyDict)>>, <<SameProfile("u1")>>>>,
     <<<<RiskRow(SubmittedDna)>>, <<>>>>,
     <<<<RiskRow(SubmittedDna)>>, <<SameProfile("u1")>>>>,
     <<<<RiskRow(SubmittedDna)>>,
       <<SameProfile("u1"), OtherProfile("u2"), SameProfile("u2"), SameProfile("u1")>>>>,
     <<<<RiskRow(SubmittedDna)>>, <<SameProfile("u1"), LongProfile("u2")>>>>}
RiskIpInfos ==
    [is_datacenter : BOOLEAN, is_vpn : BOOLEAN, is_tor : BOOLEAN,
     proxy_score : {-7, 0, 1, 51, 100}, asn : {""}]
RiskDbStats ==
    {EmptyDict}
    \cup {[same_fp_count |-> c[1], same_ip_count |-> c[2], previously_banned_count |-> c[3]] :
             c \in {<<0, 0, 0>>, <<2, 0, 0>>, <<0, 1, 1>>, <<5, 5, 3>>}}
RiskSocialScores == {EmptyDict, [is_isolated |-> TRUE], [is_isolated |-> FALSE]}
RiskAges == {0, 3, 7, 9999}
RiskInputs ==
    {[fp_rows |-> pr[1], known_dna_profiles |-> pr[2], ip_info |-> ii,
      honeypot_triggered |-> hp, account_age_days |-> age, social_scores |-> so,
      db_stats |-> st] :
        pr \in RiskProfileInputs, ii \in RiskIpInfos, hp \in BOOLEAN, age \in RiskAges,
        so \in RiskSocialScores, st \in RiskDbStats}

\* The value compute_risk returns for the arguments a.
RiskOf(a) ==
    compute_risk(a.fp_rows, a.known_dna_profiles, a.ip_info, a.honeypot_triggered,
                 a.account_age_days, a.social_scores, a.db_stats)

\* The caller at p calls compute_risk once more.
call_compute_risk(p) ==
    /\ tasks[p].pc = "compute_risk"
    /\ Len(tasks[p].results) < MaxCalls
    /\ tasks' = [tasks EXCEPT ![p].results = Append(@, RiskOf(tasks[p].args)),
                              ![p].at = Append(@, now)]
    /\ UNCHANGED <<now, clock_steps, storeVars, guildVars, AUTO_BAN, ip_store, inflight, surgeVars>>

InitRisk ==
    /\ now = 1
    /\ clock_steps = 0
    /\ verifications = <<>>
    /\ fingerprints = <<>>
    /\ dna_profiles = <<>>
    /\ actions = <<>>
    /\ quarantined = <<>>
    /\ members = DiscordIds
    /\ roles = [d \in DiscordIds |-> {}]
    /\ banned = {}
    /\ AUTO_BAN = FALSE
    /\ ip_store = [a \in Addresses |-> <<>>]
    /\ inflight = [t \in TokenIds |-> 0]
    /\ tasks \in {<<RiskCaller(a)>> : a \in RiskInputs}
    /\ recent_joins = <<>>
    /\ surge_mode = FALSE
    /\ mod_log_surge = <<>>

NextRisk ==
    \/ \E p \in DOMAIN tasks : call_compute_risk(p)
    \/ advance_clock(1, MaxClockSteps)

SpecRisk == InitRisk /\ [][NextRisk]_vars

(***************************************************************************)
(* bot.py: the quarantine sweep                                            *)
(***************************************************************************)
\* A sweep that lets a row in only after its until_ts.
until_ts_passed_strictly(row, now_ts) == row[2] < now_ts

\* Line 293 on a row (discord_id, until_ts) and the now of line 289.
until_ts_passed(row, now_ts) == row[2] <= now_ts

\* The first row from i on that line 293 lets in, or Len(rows) + 1.
RECURSIVE NextExpired(_, _, _)
NextExpired(rows, now_ts, i) ==
    IF i > Len(rows) THEN i
    ELSE IF until_ts_passed(rows[i], now_ts) THEN i
    ELSE NextExpired(rows, now_ts, i + 1)

\* The loop object of quarantine_check: where its coroutine waits, the locals
\* rows, now and guild, the row it is at, the number of the sweep; fx records
\* its platform calls and store statements as <<sweep, what, row>>, and seen
\* the rows and the now of every sweep.
QuarantineLoop ==
    [pc |-> "idle", rows |-> <<>>, now |-> 0, guild |-> FALSE, i |-> 0, n |-> 0,
     fx |-> <<>>, seen |-> <<>>]

\* Lines 291-302 from row i on, up to the next await: rows not yet due are
\* passed over; for a due row, remove_roles when the member is found and
\* holds the quarantine role (lines 294-297), else add_action.
sweep_from(t, i) ==
    LET j == NextExpired(t.rows, t.now, i)
    IN  IF j > Len(t.rows) THEN [t EXCEPT !.pc = "idle", !.i = j]
        ELSE LET discord_id == t.rows[j][1]
                 member == t.guild /\ discord_id \in members
             IN  [t EXCEPT !.i = j,
                           !.pc = IF member /\ "quarantine" \in roles[discord_id]
                                  THEN "remove_roles" ELSE "add_action"]

\* Lines 288-290, then the loop: tasks.loop starts the coroutine when the
\* last run has ended; bot.get_guild answers the guild or None.
quarantine_check ==
    /\ tasks[1].pc = "idle"
    /\ tasks[1].n < MaxSweeps
    /\ \E guild \in BOOLEAN :
          LET rows == get_quarantined(quarantined)
              t == [tasks[1] EXCEPT !.rows = rows, !.now = now, !.guild = guild,
                                    !.n = @ + 1,
                                    !.seen = Append(@, [rows |-> rows, now |-> now])]
          IN  tasks' = <<sweep_from(t, 1)>>
    /\ UNCHANGED <<now, clock_steps, storeVars, guildVars, AUTO_BAN, ip_store, inflight, surgeVars>>

\* Lines 298-301: an exception of remove_roles is passed over.
q_remove_roles ==
    LET t == tasks[1]
        discord_id == t.rows[t.i][1]
    IN  /\ t.pc = "remove_roles"
        /\ \E ok \in platform_call_ok(discord_id) :
              /\ roles' = IF ok THEN [roles EXCEPT ![discord_id] = @ \ {"quarantine"}]
                          ELSE roles
              /\ tasks' = <<[t EXCEPT !.pc = "add_action",
                                      !.fx = Append(@, <<t.n, IF ok THEN "remove_roles"
                                                              ELSE "remove_roles_raised",
                                                         t.i>>)]>>
        /\ UNCHANGED <<now, clock_steps, storeVars, members, banned, AUTO_BAN, ip_store, inflight,
                       surgeVars>>

\* Line 302, then the loop from the next row on.
q_add_action ==
    LET t == tasks[1]
        discord_id == t.rows[t.i][1]
    IN  /\ t.pc = "add_action"
        /\ actions' = add_action(actions, discord_id, "quarantine_expired",
                                 "Auto-unquarantine after expiration.", now)
        /\ tasks' = <<sweep_from([t EXCEPT !.fx = Append(@, <<t.n, "quarantine_expired",
                                                              t.i>>)],
                                 t.i + 1)>>
        /\ UNCHANGED <<now, clock_steps, verifications, fingerprints, dna_profiles,
                       quarantined, guildVars, AUTO_BAN, ip_store, inflight, surgeVars>>

\* The quarantined tables of the sweep, as lines 223-224 insert their rows
\* (until_ts = created_at + QUARANTINE_HOURS * 3600): a record of u1 from
\* second 1, alone, with a later record of u1 or of u2, and a later record alone.
SweepTables ==
    LET early(d) == [discord_id |-> d, until_ts |-> 1 + QUARANTINE_HOURS * 3600,
                     created_at |-> 1]
        late(d) == [discord_id |-> d,
                    until_ts |-> 1 + SWEEP_PERIOD + QUARANTINE_HOURS * 3600,
                    created_at |-> 1 + SWEEP_PERIOD]
    IN  {<<early("u1")>>, <<early("u1"), late("u1")>>, <<early("u1"), late("u2")>>,
         <<late("u1")>>}

\* The sweep starts at the second the early record runs out; a member holds
\* the quarantine role or not, and who has left holds no role.
InitSweep ==
    /\ now = 1 + QUARANTINE_HOURS * 3600
    /\ clock_steps = 0
    /\ verifications = <<>>
    /\ fingerprints = <<>>
    /\ dna_profiles = <<>>
    /\ actions = <<>>
    /\ quarantined \in SweepTables
    /\ members \in SUBSET DiscordIds
    /\ roles \in {r \in [DiscordIds -> {{}, {"quarantine"}}] :
                     \A d \in DiscordIds : d \notin members => r[d] = {}}
    /\ banned = {}
    /\ AUTO_BAN = FALSE
    /\ ip_store = [a \in Addresses |-> <<>>]
    /\ inflight = <<>>
    /\ tasks = <<QuarantineLoop>>
    /\ recent_joins = <<>>
    /\ surge_mode = FALSE
    /\ mod_log_surge = <<>>

NextSweep ==
    \/ quarantine_check
    \/ q_remove_roles
    \/ q_add_action
    \/ advance_clock(SWEEP_PERIOD, MaxSweepSteps)
    \/ \E d \in DiscordIds : member_leaves(d)

SpecSweep == InitSweep /\ [][NextSweep]_vars

(***************************************************************************)
(* The webhook and its callers                                             *)
(***************************************************************************)
\* The bodies posted to /verify: without a token, with the issued token, with
\* a token no row has.
GateTokens == {NoToken, 1, 2}
\* The X-Signature headers posted with a token: web.py's, and others.
GateSignatures(token) ==
    {Hmac(VERIFY_SECRET, token), NonAsciiSignature} \cup ForgedSignatures(token)

\* A POST to /verify and its answer; here inflight is the record of the
\* webhook's exchanges, each request with the answer it was given.
post_verify(token, sig) ==
    /\ Len(inflight) < MaxPosts
    /\ handle_verify_request(token, sig)
    /\ inflight' = Append(inflight, [token |-> token, sig |-> sig,
                                     response |-> verify_response(token, sig)])

\* Token 1 of the member u1 has one stored submission, which touched the
\* honeypot from a datacenter VPN address.
InitGate ==
    /\ now = 1
    /\ clock_steps = 0
    /\ verifications = create_verification(<<>>, 1, "u1", TOKEN_TTL, 1)
    /\ fingerprints =
          save_fingerprint(<<>>, 1,
                           JsonDumps([fp |-> "", dna |-> EmptyDict,
                                      ip_info |-> DatacenterVpnIpInfo]),
                           "ip1", DatacenterVpnIpInfo.asn, "ua", TRUE, 1)
    /\ dna_profiles = <<>>
    /\ actions = <<>>
    /\ quarantined = <<>>
    /\ members = {"u1"}
    /\ roles = [d \in DiscordIds |-> {}]
    /\ banned = {}
    /\ AUTO_BAN = FALSE
    /\ ip_store = [a \in Addresses |-> <<>>]
    /\ inflight = <<>>
    /\ tasks = <<>>
    /\ recent_joins = <<>>
    /\ surge_mode = FALSE
    /\ mod_log_surge = <<>>

NextGate ==
    \/ \E t \in GateTokens : \E sig \in GateSignatures(t) : post_verify(t, sig)
    \/ \E p \in DOMAIN tasks : p_get_verification(p)
    \/ \E p \in DOMAIN tasks : p_add_token_rejected(p)
    \/ \E p \in DOMAIN tasks : p_fetch_fingerprints(p)
    \/ \E p \in DOMAIN tasks : p_db_stats(p)
    \/ \E p \in DOMAIN tasks : p_fetch_all_dna_profiles(p)
    \/ \E p \in DOMAIN tasks : p_mark_token_used(p)
    \/ \E p \in DOMAIN tasks : p_add_roles_qrole(p)
    \/ \E p \in DOMAIN tasks : p_quarantine_member(p)
    \/ \E p \in DOMAIN tasks : p_add_quarantine_auto(p)

SpecGate == InitGate /\ [][NextGate]_vars

(***************************************************************************)
(* web.py: /submit with its rate limiter and its answers                   *)
(***************************************************************************)
RECURSIVE RateEvict(_, _)
\* Lines 106-107: while dq and dq[0] < now - RATE_WINDOW: dq.popleft()
RateEvict(dq, ts) ==
    IF dq # <<>> /\ Head(dq) < ts - RATE_WINDOW THEN RateEvict(Tail(dq), ts) ELSE dq

\* The answer of /submit to the body {"token": token} from the address ip.
submit_response(token, ip) ==
    LET dq == RateEvict(ip_store[ip], now)
        checked == check_token_valid(verifications, token, now)
    IN  IF token = NoToken
        THEN [status |-> 400, ok |-> FALSE, error |-> "no token provided"]
        ELSE IF Len(dq) >= RATE_LIMIT
        THEN [status |-> 429, ok |-> FALSE, error |-> "rate limit exceeded"]
        ELSE IF ~checked[1]
        THEN [status |-> 400, ok |-> FALSE, error |-> checked[2]]
        ELSE [status |-> 200, ok |-> TRUE, error |-> ""]

\* A /submit that stores the fingerprint before it asks check_token_valid.
post_submit_saving_first(token, ip, data, ip_info) ==
    LET dq == RateEvict(ip_store[ip], now)
        r == submit_response(token, ip)
        payload_fp == JsonDumps([fp |-> data.fp, dna |-> data.dna, ip_info |-> ip_info])
    IN  /\ Len(inflight) < MaxSubmits
        /\ ip_store' = IF token = NoToken THEN ip_store
                       ELSE IF r.status = 429 THEN [ip_store EXCEPT ![ip] = dq]
                       ELSE [ip_store EXCEPT ![ip] = Append(dq, now)]
        /\ fingerprints' = IF token # NoToken /\ r.status # 429
                           THEN save_fingerprint(fingerprints, token, payload_fp, ip,
                                                 ip_info.asn, "ua", data.honeypot, now)
                           ELSE fingerprints
        /\ inflight' = Append(inflight, [token |-> token, ip |-> ip, response |-> r,
                                         notified |-> r.status = 200])
        /\ UNCHANGED <<now, clock_steps, verifications, dna_profiles, actions,
                       quarantined, guildVars, AUTO_BAN, tasks, surgeVars>>

\* POST /submit, lines 96-142, every request and every answer; here inflight
\* is the record of the exchanges of /submit, each request with its answer and
\* with whether it started notify_bot (line 140).
post_submit(token, ip, data, ip_info) ==
    LET dq == RateEvict(ip_store[ip], now)
        r == submit_response(token, ip)
        payload_fp == JsonDumps([fp |-> data.fp, dna |-> data.dna, ip_info |-> ip_info])
    IN  /\ Len(inflight) < MaxSubmits
        /\ ip_store' = IF token = NoToken THEN ip_store
                       ELSE IF r.status = 429 THEN [ip_store EXCEPT ![ip] = dq]
                       ELSE [ip_store EXCEPT ![ip] = Append(dq, now)]
        /\ fingerprints' = IF r.status = 200
                           THEN save_fingerprint(fingerprints, token, payload_fp, ip,
                                                 ip_info.asn, "ua", data.honeypot, now)
                           ELSE fingerprints
        /\ inflight' = Append(inflight, [token |-> token, ip |-> ip, response |-> r,
                                         notified |-> r.status = 200])
        /\ UNCHANGED <<now, clock_steps, verifications, dna_profiles, actions,
                       quarantined, guildVars, AUTO_BAN, tasks, surgeVars>>

\* The bodies posted to /submit: without a token, with the pending token 1,
\* with the used token 2, with a token no row has.
SubmitTokens == {NoToken, 1, 2, 3}
\* The clock steps between requests: past the rate window, and to the last
\* second of token 1 and the one after it.
SubmitSteps == {RATE_WINDOW + 1, TOKEN_TTL - RATE_WINDOW - 1, 1}

\* The subject u1 holds token 1, pending, and token 2, which a run has
\* consumed at line 207.
InitSubmit ==
    /\ now = 1
    /\ clock_steps = 0
    /\ verifications =
          mark_token_used(
              create_verification(create_verification(<<>>, 1, "u1", TOKEN_TTL, 1),
                                  2, "u1", TOKEN_TTL, 1),
              2, 1)
    /\ fingerprints = <<>>
    /\ dna_profiles = <<>>
    /\ actions = <<>>
    /\ quarantined = <<>>
    /\ members = {"u1"}
    /\ roles = [d \in DiscordIds |-> {}]
    /\ banned = {}
    /\ AUTO_BAN = FALSE
    /\ ip_store = [a \in Addresses |-> <<>>]
    /\ inflight = <<>>
    /\ tasks = <<>>
    /\ recent_joins = <<>>
    /\ surge_mode = FALSE
    /\ mod_log_surge = <<>>

NextSubmit ==
    \/ \E t \in SubmitTokens :
          post_submit(t, "ip1", ProfileSubmission[1], ProfileSubmission[2])
    \/ \E d \in SubmitSteps : advance_clock(d, MaxSubmitClockSteps)

SpecSubmit == InitSubmit /\ [][NextSubmit]_vars

(***************************************************************************)
(* Observations on runs                                                    *)
(***************************************************************************)
Done(p) == tasks[p].pc = "done"
Count(p, e) == Cardinality({i \in DOMAIN tasks[p].fx : tasks[p].fx[i] = e})
Did(p, e) == Count(p, e) > 0
\* The run passed the validity check and went on to decide.
Decisioned(p) == Did(p, "mark_token_used")
RowOf(token) == Val(get_verification(verifications, token))
Rows(tbl, discord_id, kind) ==
    {i \in DOMAIN tbl : tbl[i].discord_id = discord_id /\ tbl[i].action = kind}
DecisionEffects ==
    {"add_roles_qrole", "quarantine_member", "quarantine_auto", "add_roles_vrole",
     "set_verification_status", "verified"}
Decided(p) == \E e \in DecisionEffects : Did(p, e)

\* The run at p read the token's row with used = 1 at line 114.
Replay(p) == tasks[p].used
\* The run at p takes a step.
Steps(p) == tasks'[p] # tasks[p]
\* tbl2 is tbl with one more row.
OneMore(tbl, tbl2) == Len(tbl2) = Len(tbl) + 1 /\ SubSeq(tbl2, 1, Len(tbl)) = tbl
\* The spec's Expired: expiresAt is set and strictly less than ts.
Expired(r, ts) == r.expires_at # Null /\ Val(r.expires_at) < ts
\* The run at p is in the validity check of lines 114-127.
Validating(p) == tasks[p].pc \in {"get_verification", "add_token_expired", "add_token_reuse"}

(***************************************************************************)
(* Properties: the token lifecycle                                         *)
(***************************************************************************)

\* C1: at-most-once decisioning under duplicates.  Of the runs of
\* process_verification_token for one token, however they interleave, at most
\* one applies decision effects (role assignment, quarantine record, status
\* change, 'verified' or 'quarantine_auto' entry), and the audit table holds at
\* most one 'verified' or 'quarantine_auto' entry per token.
C1_AtMostOnceDecision ==
    /\ \A p, q \in DOMAIN tasks :
          (p # q /\ tasks[p].token = tasks[q].token) => ~(Decided(p) /\ Decided(q))
    /\ Cardinality({i \in DOMAIN actions : actions[i].action \in {"verified", "quarantine_auto"}})
          <= Len(verifications)

\* C2: sequential replay protection.  A token's used flag is never cleared; a
\* run that reaches the validity check of a used token goes to a rejection; and
\* a run that read used = 1 changes no role, inserts no quarantine record and no
\* profile, leaves the verifications table as it is, and has one effect only,
\* one token_reuse or token_expired audit entry.
C2_ReplayInv ==
    \A p \in DOMAIN tasks :
        Replay(p) => /\ tasks[p].fx \in {<<>>, <<"token_reuse">>, <<"token_expired">>}
                     /\ Done(p) => Len(tasks[p].fx) = 1
C2_ReplayStep ==
    /\ \A i \in DOMAIN verifications : verifications[i].used => verifications'[i].used
    /\ \A p \in DOMAIN tasks :
          /\ (tasks[p].pc = "get_verification" /\ Steps(p) /\ RowOf(tasks[p].token).used)
                => /\ Replay(p)'
                   /\ tasks'[p].pc \in {"add_token_reuse", "add_token_expired"}
          /\ (Replay(p) /\ Steps(p))
                => /\ UNCHANGED <<verifications, fingerprints, dna_profiles, quarantined,
                                  guildVars>>
                   /\ OneMore(actions, actions')
                   /\ actions'[Len(actions')].action \in {"token_reuse", "token_expired"}
                   /\ Done(p)'
C2_ReplayProtection == []C2_ReplayInv /\ [][C2_ReplayStep]_vars
C2_Witness ==
    \E p, q \in DOMAIN tasks :
        /\ p # q /\ tasks[p].token = tasks[q].token
        /\ Done(q) /\ Decisioned(q)
        /\ Done(p) /\ Replay(p) /\ tasks[p].fx = <<"token_reuse">>
        /\ Rows(actions, tasks[p].discord_id_str, "token_reuse") # {}

\* C3: a token with used = 1 always fails validation as already used, expired
\* or not, at both sites: check_token_valid answers 'token already used', and
\* the bot's check takes the token_reuse branch, never the token_expired one.
C3_UsedIsAlreadyUsed ==
    /\ \A tok \in TokenIds :
          LET v == get_verification(verifications, tok)
          IN  (v # Null /\ Val(v).used)
                 => /\ check_token_valid(verifications, tok, now) = <<FALSE, "token already used">>
                    /\ bot_validate(v, now) = "token_reuse"
    /\ \A p \in DOMAIN tasks :
          Replay(p) => tasks[p].pc # "add_token_expired" /\ ~Did(p, "token_expired")

\* C4: an unused token whose expires_at is set and strictly less than now
\* fails validation as expired, at both sites; a token with now = expires_at,
\* or without expires_at, is not expired at either site.  The runs and the
\* submissions follow: a run leaves the validity check of such a token for the
\* token_expired branch exactly when the token is expired, and no submission is
\* accepted for an expired token.
C4_ExpiryInv ==
    \A tok \in TokenIds :
        LET v == get_verification(verifications, tok)
        IN  v # Null =>
              /\ (~Val(v).used /\ Expired(Val(v), now))
                    => /\ check_token_valid(verifications, tok, now) = <<FALSE, "token expired">>
                       /\ bot_validate(v, now) = "token_expired"
              /\ ~Expired(Val(v), now)
                    => /\ check_token_valid(verifications, tok, now)[2] # "token expired"
                       /\ bot_validate(v, now) # "token_expired"
              /\ (~Val(v).used /\ ~Expired(Val(v), now))
                    => /\ check_token_valid(verifications, tok, now) = <<TRUE, "">>
                       /\ bot_validate(v, now) = "ok"
C4_ExpiryStep ==
    /\ \A p \in DOMAIN tasks :
          (tasks[p].pc = "get_verification" /\ Steps(p))
             => LET r == RowOf(tasks[p].token)
                IN  /\ (~r.used /\ Expired(r, now)) => tasks'[p].pc = "add_token_expired"
                    /\ ~Expired(r, now) => tasks'[p].pc # "add_token_expired"
                    /\ (~r.used /\ ~Expired(r, now)) => tasks'[p].pc = "fetch_fingerprints"
    /\ fingerprints' # fingerprints
          => LET r == RowOf(fingerprints'[Len(fingerprints')].token)
             IN  ~r.used /\ ~Expired(r, now)
C4_Expiry == []C4_ExpiryInv /\ [][C4_ExpiryStep]_vars
C4_Witness ==
    \E p \in DOMAIN tasks :
        /\ tasks[p].pc = "add_token_expired"
        /\ ~Replay(p)
        /\ ~RowOf(tasks[p].token).used
        /\ Expired(RowOf(tasks[p].token), now)
        /\ check_token_valid(verifications, tasks[p].token, now) = <<FALSE, "token expired">>

\* C5 as stated: validation never mutates state.  No step of the bot's validity
\* check (lines 114-127) and no submission changes any of the tables
\* verifications, fingerprints, dna_profiles, actions, quarantined, beyond the
\* fingerprint row an accepted submission stores after its validation.
C5_ValidationMutatesNothing ==
    [][/\ \A p \in DOMAIN tasks : (Validating(p) /\ Steps(p)) => UNCHANGED storeVars
       /\ fingerprints' # fingerprints
             => UNCHANGED <<verifications, dna_profiles, actions, quarantined>>]_vars

\* C5: validation never changes the tables verifications, fingerprints,
\* dna_profiles and quarantined, at either site; check_token_valid, and the
\* bot's check when it finds the token absent or valid, change no table at all;
\* the bot's check that finds the token expired or used appends exactly one
\* audit entry, token_expired or token_reuse, and changes nothing else.
C5_ValidationFrameStep ==
    /\ \A p \in DOMAIN tasks :
          (Validating(p) /\ Steps(p))
             => /\ UNCHANGED <<verifications, fingerprints, dna_profiles, quarantined>>
                /\ IF tasks[p].pc = "get_verification" THEN UNCHANGED actions
                   ELSE /\ OneMore(actions, actions')
                        /\ actions'[Len(actions')].action =
                              (IF tasks[p].pc = "add_token_expired" THEN "token_expired"
                               ELSE "token_reuse")
                        /\ actions'[Len(actions')].discord_id = tasks[p].discord_id_str
    /\ fingerprints' # fingerprints
          => UNCHANGED <<verifications, dna_profiles, actions, quarantined>>
C5_ValidationFrame == [][C5_ValidationFrameStep]_vars
C5_Witness ==
    \E p \in DOMAIN tasks :
        /\ Done(p)
        /\ ~Replay(p)
        /\ tasks[p].fx = <<"token_expired">>
        /\ Rows(actions, tasks[p].discord_id_str, "token_expired") # {}
        /\ ~RowOf(tasks[p].token).used

\* C6: every join to the configured guild (on_member_join) results in one new
\* row of verifications with status pending, used = 0 and
\* expires_at = created_at + 600.
C6_JoinIssuesToken ==
    [][recent_joins' = Append(recent_joins, now)
          => /\ OneMore(verifications, verifications')
             /\ LET r == verifications'[Len(verifications')]
                IN  /\ r.status = "pending"
                    /\ ~r.used
                    /\ r.expires_at = Some(r.created_at + TOKEN_TTL)]_vars

(***************************************************************************)
(* Properties: the decision                                                *)
(***************************************************************************)

\* C7: quarantine path.  A run that has decided a valid token for a resolved
\* member with score >= QUARANTINE_THRESHOLD has, when it ends, inserted exactly
\* one quarantined row with until_ts = now + QUARANTINE_HOURS * 3600, appended
\* exactly one quarantine_auto entry, and neither assigned the verified role nor
\* set the status verified.
C7_QuarantinePath ==
    \A p \in DOMAIN tasks :
        (Done(p) /\ Decisioned(p) /\ tasks[p].member /\ tasks[p].score >= QUARANTINE_THRESHOLD)
           => /\ Count(p, "quarantine_member") = 1
              /\ Count(p, "quarantine_auto") = 1
              /\ ~Did(p, "add_roles_vrole")
              /\ ~Did(p, "set_verification_status")
              /\ \E i \in DOMAIN quarantined :
                    /\ quarantined[i].discord_id = tasks[p].discord_id_str
                    /\ quarantined[i].until_ts = quarantined[i].created_at + QUARANTINE_HOURS * 3600
              /\ Rows(actions, tasks[p].discord_id_str, "quarantine_auto") # {}

\* C8: verified path.  A run that has decided a valid token for a resolved
\* member with score < QUARANTINE_THRESHOLD has, when it ends, set the token's
\* status to verified, appended exactly one verified entry, and inserted no
\* quarantined row.
C8_VerifiedPath ==
    \A p \in DOMAIN tasks :
        (Done(p) /\ Decisioned(p) /\ tasks[p].member /\ tasks[p].score < QUARANTINE_THRESHOLD)
           => /\ Count(p, "set_verification_status") = 1
              /\ Count(p, "verified") = 1
              /\ ~Did(p, "quarantine_member")
              /\ Rows(actions, tasks[p].discord_id_str, "verified") # {}
              /\ \E i \in DOMAIN verifications :
                    /\ verifications[i].token = tasks[p].token
                    /\ verifications[i].status = "verified"

\* C9: a decision moves the token out of pending.  When a run that consumed a
\* token has ended, the token's status is quarantined on the quarantine path,
\* verified on the verified path and failed when the member was not resolved.
C9_DecisionLeavesPending ==
    \A p \in DOMAIN tasks :
        (Done(p) /\ Decisioned(p))
           => /\ RowOf(tasks[p].token).used
              /\ RowOf(tasks[p].token).status # "pending"
              /\ RowOf(tasks[p].token).status \in
                    (IF ~tasks[p].member THEN {"failed"}
                     ELSE IF tasks[p].score >= QUARANTINE_THRESHOLD THEN {"quarantined"}
                     ELSE {"verified"})

\* C10: a platform failure does not block the store-side decision.  A run whose
\* add_roles raised has, when it ends, recorded the store-side outcome: the
\* quarantined row and the quarantine_auto entry on the quarantine path, the
\* status verified and the verified entry on the verified path.
C10_PlatformFailureKeepsDecision ==
    \A p \in DOMAIN tasks :
        (Done(p) /\ Did(p, "add_roles_raised"))
           => IF tasks[p].score >= QUARANTINE_THRESHOLD
              THEN /\ Did(p, "quarantine_member")
                   /\ Did(p, "quarantine_auto")
                   /\ \E i \in DOMAIN quarantined :
                         quarantined[i].discord_id = tasks[p].discord_id_str
                   /\ Rows(actions, tasks[p].discord_id_str, "quarantine_auto") # {}
              ELSE /\ Did(p, "set_verification_status")
                   /\ Did(p, "verified")
                   /\ Rows(actions, tasks[p].discord_id_str, "verified") # {}

\* C11: unresolvable member.  A run that decides a valid token whose subject
\* is not in the roster marks the token used and appends exactly one
\* verify_no_member entry; from the consumption on, its steps change no role,
\* no member, and no table but actions, so it inserts no quarantined row and no
\* profile, and writes no verified, quarantine_auto or ban entry.
C11_NoMemberInv ==
    \A p \in DOMAIN tasks :
        (Decisioned(p) /\ ~tasks[p].member)
           => /\ RowOf(tasks[p].token).used
              /\ tasks[p].fx \in {<<"mark_token_used">>, <<"mark_token_used", "verify_no_member">>}
              /\ Done(p) => /\ tasks[p].fx = <<"mark_token_used", "verify_no_member">>
                            /\ Rows(actions, tasks[p].discord_id_str, "verify_no_member") # {}
C11_NoMemberStep ==
    \A p \in DOMAIN tasks :
        /\ (tasks[p].pc = "mark_token_used" /\ ~tasks[p].member /\ Steps(p))
              => /\ tasks'[p].pc = "add_verify_no_member"
                 /\ UNCHANGED <<actions, quarantined, dna_profiles, fingerprints, guildVars>>
        /\ (Decisioned(p) /\ ~tasks[p].member /\ Steps(p))
              => /\ UNCHANGED <<verifications, quarantined, dna_profiles, fingerprints, guildVars>>
                 /\ OneMore(actions, actions')
                 /\ actions'[Len(actions')].action = "verify_no_member"
                 /\ actions'[Len(actions')].discord_id = tasks[p].discord_id_str
                 /\ Done(p)'
C11_UnresolvableMember == []C11_NoMemberInv /\ [][C11_NoMemberStep]_vars
C11_Witness ==
    \E p \in DOMAIN tasks :
        /\ Done(p) /\ ~tasks[p].member
        /\ tasks[p].fx = <<"mark_token_used", "verify_no_member">>
        /\ tasks[p].discord_id_str \notin members
        /\ RowOf(tasks[p].token).used
        /\ Rows(actions, tasks[p].discord_id_str, "verify_no_member") # {}
        /\ quarantined = <<>> /\ dna_profiles = <<>>

\* C12: auto-ban gating.  A run calls member.ban or writes a ban entry only
\* with AUTO_BAN set and a score >= 95, after its quarantine_auto entry; every
\* ban entry and every banned member comes from such a run; with AUTO_BAN off
\* there is no ban entry and no banned member, whatever the score.
C12_AutoBanGating ==
    /\ \A p \in DOMAIN tasks :
          (tasks[p].pc \in {"ban", "add_ban"} \/ Did(p, "ban") \/ Did(p, "ban_raised")
              \/ Did(p, "add_ban"))
             => /\ AUTO_BAN
                /\ tasks[p].score >= AUTO_BAN_SCORE
                /\ Did(p, "quarantine_auto")
    /\ \A i \in DOMAIN actions :
          actions[i].action = "ban"
             => /\ AUTO_BAN
                /\ \E p \in DOMAIN tasks :
                      /\ Did(p, "add_ban")
                      /\ tasks[p].score >= AUTO_BAN_SCORE
                      /\ tasks[p].discord_id_str = actions[i].discord_id
    /\ banned # {} => AUTO_BAN
    /\ \A d \in banned :
          \E p \in DOMAIN tasks : Did(p, "ban") /\ tasks[p].discord_id_str = d
C12_Witness ==
    /\ \E p \in DOMAIN tasks :
          /\ Done(p) /\ Did(p, "add_ban")
          /\ tasks[p].score >= AUTO_BAN_SCORE
          /\ tasks[p].discord_id_str \in banned
          /\ Rows(actions, tasks[p].discord_id_str, "ban") # {}
    /\ AUTO_BAN

\* C13: the behavioural profile is first-writer-wins.  In every state there
\* is at most one row of dna_profiles per subject, and a row once written keeps
\* its vectors, also when two tokens of one subject are decided concurrently or
\* one after the other.
C13_OneProfilePerSubject ==
    \A i, j \in DOMAIN dna_profiles :
        dna_profiles[i].discord_id = dna_profiles[j].discord_id => i = j
C13_ProfileKept ==
    \A i \in DOMAIN dna_profiles :
        /\ i \in DOMAIN dna_profiles'
        /\ dna_profiles'[i] = dna_profiles[i]
C13_ProfileFirstWriterWins == []C13_OneProfilePerSubject /\ [][C13_ProfileKept]_vars

(***************************************************************************)
(* Properties: the risk engine                                             *)
(***************************************************************************)
\* The values compute_risk has returned to the callers: <<args, value, time>>.
Returned ==
    UNION {{<<tasks[p].args, tasks[p].results[k], tasks[p].at[k]>> :
               k \in {j \in DOMAIN tasks[p].results : ~tasks[p].results[j].raised}} :
           p \in DOMAIN tasks}
\* The half points a value's reasons add up to.
ReasonsSum(r) == SumOver([i \in 1..Len(r.reasons) |-> r.reasons[i].add], Len(r.reasons))

\* C14: clamp invariant.  Whatever the correlation counts, IP flags, proxy
\* score, honeypot, account age and number of DNA matches, the risk_score
\* compute_risk returns is an integer from 0 to 100.
C14_Clamp ==
    \A c \in Returned : c[2].risk_score \in 0..100
C14_Witness ==
    \E c \in Returned :
        /\ c[2].risk_score = 100 /\ ReasonsSum(c[2]) > 2 * 100
        /\ Len(c[2].dna_matches) = 3
        /\ c[1].honeypot_triggered

FormulaSum2(a, n) ==
    LET fpc == DictGet(a.db_stats, "same_fp_count", 0)
        ipc == DictGet(a.db_stats, "same_ip_count", 0)
        pbc == DictGet(a.db_stats, "previously_banned_count", 0)
    IN  2 * 25 * Min(3, fpc) + 20 * Min(4, ipc) + 2 * Min(25, 10 * pbc)
        + (IF a.ip_info.is_datacenter THEN 2 * 25 ELSE 0)
        + (IF a.ip_info.is_vpn THEN 2 * 35 ELSE 0)
        + (IF a.ip_info.is_tor THEN 2 * 40 ELSE 0)
        + a.ip_info.proxy_score
        + (IF a.honeypot_triggered THEN 2 * 90 ELSE 0)
        + (IF a.account_age_days < 1 THEN 2 * 20
           ELSE IF a.account_age_days < 7 THEN 2 * 12 ELSE 0)
        + 2 * 35 * n
\* The integer nearest to s2 half points, a half going to the even neighbour.
Nearest(s2) ==
    CHOOSE r \in (s2 \div 2)..(s2 \div 2 + 1) :
        \/ 2 * r = s2
        \/ (s2 % 2 = 1 /\ r % 2 = 0)
\* The spec's example: same_fp_count = 2 and every other signal neutral.
FormulaExample(a) ==
    /\ a.db_stats = [same_fp_count |-> 2, same_ip_count |-> 0, previously_banned_count |-> 0]
    /\ ~a.ip_info.is_datacenter /\ ~a.ip_info.is_vpn /\ ~a.ip_info.is_tor
    /\ a.ip_info.proxy_score = 0
    /\ ~a.honeypot_triggered
    /\ a.account_age_days >= 7
    /\ a.social_scores = EmptyDict

\* C16 as stated: the score compute_risk returns equals min(100, sum of the
\* applicable weights) for the weights the formula lists.
C16_ScoreIsCappedSum ==
    \A c \in Returned : 2 * c[2].risk_score = Min(2 * 100, FormulaSum2(c[1], Len(c[2].dna_matches)))

\* C16: the score compute_risk returns is the sum of the applicable weights,
\* the listed ones and +8 for social scores that mark the subject isolated,
\* rounded to the nearest integer with a half going to the even neighbour, then
\* clamped to 0..100; same_fp_count = 2 with every other signal neutral and no
\* DNA match gives exactly 50, below QUARANTINE_THRESHOLD.
C16_ScoreFormula ==
    \A c \in Returned :
        LET social == IF DictTruthy(c[1].social_scores) /\ c[1].social_scores.is_isolated
                      THEN 2 * 8 ELSE 0
            sum2 == FormulaSum2(c[1], Len(c[2].dna_matches)) + social
        IN  /\ c[2].risk_score = Max(0, Min(100, Nearest(sum2)))
            /\ ReasonsSum(c[2]) = sum2
            /\ (FormulaExample(c[1]) /\ c[2].dna_matches = <<>>)
                  => c[2].risk_score = 50 /\ c[2].risk_score < QUARANTINE_THRESHOLD
C16_Witness ==
    \E c \in Returned :
        /\ FormulaExample(c[1]) /\ c[2].dna_matches = <<>>
        /\ c[2].risk_score = 50
        /\ Len(c[2].reasons) = 1

(***************************************************************************)
(* Properties: honeypot, quarantine sweep, surge detector                  *)
(***************************************************************************)
\* The run at p computed honeypot_triggered = True at line 189.
HoneypotTriggered(p) ==
    \E k \in DOMAIN tasks[p].reasons : tasks[p].reasons[k].kind = "honeypot"

\* C17: honeypot dominates.  A run that decided a valid token for a resolved
\* member with honeypot_triggered has a score of at least 90 and, at its
\* return, has inserted a quarantined row and a quarantine_auto entry and has
\* not set the status verified.
C17_HoneypotDominates ==
    [][\A p \in DOMAIN tasks :
          (tasks[p].pc # "done" /\ tasks'[p].pc = "done" /\ Decisioned(p)
             /\ tasks[p].member /\ HoneypotTriggered(p))
             => /\ tasks[p].score >= 90
                /\ Did(p, "quarantine_member")'
                /\ Did(p, "quarantine_auto")'
                /\ ~Did(p, "set_verification_status")'
                /\ \E i \in DOMAIN quarantined' :
                      quarantined'[i].discord_id = tasks[p].discord_id_str
                /\ Rows(actions', tasks[p].discord_id_str, "quarantine_auto") # {}]_vars
\* The score half of C17 on compute_risk alone, for a proxy_score in its range
\* 0..100 (a negative one, which int(j.get('proxy_score') or 0) of web.py
\* lets through, takes half its value off the 90).
C17_HoneypotScore ==
    \A c \in Returned :
        (c[1].honeypot_triggered /\ c[1].ip_info.proxy_score \in 0..100)
           => c[2].risk_score >= 90

\* The successful remove_roles calls of the sweeps on discord_id.
Removals(discord_id) ==
    {k \in DOMAIN tasks[1].fx :
        /\ tasks[1].fx[k][2] = "remove_roles"
        /\ tasks[1].seen[tasks[1].fx[k][1]].rows[tasks[1].fx[k][3]][1] = discord_id}
\* The quarantine_expired entries sweep n appended for its row i.
Expirations(n, i) ==
    {k \in DOMAIN tasks[1].fx : tasks[1].fx[k] = <<n, "quarantine_expired", i>>}
\* Sweep n is past its row i.
SweptPast(n, i) == n < tasks[1].n \/ tasks[1].pc = "idle" \/ i < tasks[1].i

C18_SweepInv ==
    /\ \A d \in DiscordIds : Cardinality(Removals(d)) <= 1
    /\ \A n \in DOMAIN tasks[1].seen : \A i \in DOMAIN tasks[1].seen[n].rows :
          LET due == tasks[1].seen[n].rows[i][2] <= tasks[1].seen[n].now
              entries == Cardinality(Expirations(n, i))
          IN  /\ entries <= 1
              /\ ~due => entries = 0
              /\ (due /\ SweptPast(n, i)) => entries = 1
    /\ Cardinality({k \in DOMAIN actions : actions[k].action = "quarantine_expired"})
          = Cardinality({k \in DOMAIN tasks[1].fx :
                            tasks[1].fx[k][2] = "quarantine_expired"})
C18_SweepStep ==
    (tasks' # tasks)
       => /\ UNCHANGED <<verifications, fingerprints, dna_profiles, quarantined, members,
                         banned>>
          /\ \/ actions' = actions
             \/ /\ OneMore(actions, actions')
                /\ actions'[Len(actions')].action = "quarantine_expired"
                /\ actions'[Len(actions')].discord_id = tasks[1].rows[tasks[1].i][1]
          /\ \A d \in DiscordIds :
                \/ roles'[d] = roles[d]
                \/ /\ "quarantine" \in roles[d]
                   /\ roles'[d] = roles[d] \ {"quarantine"}
                   /\ \E k \in DOMAIN quarantined :
                         /\ quarantined[k].discord_id = d
                         /\ quarantined[k].until_ts <= tasks[1].now
\* C18: quarantine sweep on an expired record.  Over the sweeps the quarantine
\* role is removed from a subject at most once, and only from a holder with a
\* record whose until_ts is not after the sweep's now; a sweep appends exactly
\* one quarantine_expired entry for every such record it lists and none for
\* the others; a step of a sweep changes nothing else.
C18_QuarantineSweep == []C18_SweepInv /\ [][C18_SweepStep]_vars
C18_Witness ==
    /\ tasks[1].pc = "idle"
    /\ tasks[1].n = 2
    /\ \E i \in DOMAIN tasks[1].seen[1].rows :
          /\ i \in DOMAIN tasks[1].seen[2].rows
          /\ tasks[1].seen[1].rows[i][2] = tasks[1].seen[1].now
          /\ Cardinality(Expirations(1, i)) = 1
          /\ Cardinality(Expirations(2, i)) = 1
          /\ \E k \in DOMAIN tasks[1].fx : tasks[1].fx[k] = <<1, "remove_roles_raised", i>>
          /\ \E k \in DOMAIN tasks[1].fx : tasks[1].fx[k] = <<2, "remove_roles", i>>
          /\ Cardinality(Removals(tasks[1].seen[1].rows[i][1])) = 1

C20_AlternationInv ==
    /\ \A k \in DOMAIN mod_log_surge :
          mod_log_surge[k] = IF k % 2 = 1 THEN "surge_detected" ELSE "surge_ended"
    /\ surge_mode = (Len(mod_log_surge) % 2 = 1)
C20_NotifyStep ==
    /\ (mod_log_surge' # mod_log_surge) = (surge_mode' # surge_mode)
    /\ (mod_log_surge' # mod_log_surge)
          => /\ OneMore(mod_log_surge, mod_log_surge')
             /\ mod_log_surge'[Len(mod_log_surge')] =
                   IF surge_mode' THEN "surge_detected" ELSE "surge_ended"
\* C20: no double notification.  The texts the surge detector hands to mod_log
\* alternate surge_detected, surge_ended, surge_detected, ... from
\* surge_detected on; a step appends a text exactly when it changes
\* surge_mode, and the text names the new value.
C20_NoDoubleNotification == []C20_AlternationInv /\ [][C20_NotifyStep]_vars
C20_Witness ==
    /\ mod_log_surge = <<"surge_detected", "surge_ended", "surge_detected">>
    /\ surge_mode
    /\ Len(recent_joins) >= SURGE_JOINS

\* The window holds three joins in a row less than SURGE_WINDOW seconds apart
\* (no iteration evicts a join before a later one less than SURGE_WINDOW
\* seconds after it has arrived).
Burst ==
    \E i \in DOMAIN recent_joins :
        /\ i + SURGE_JOINS - 1 \in DOMAIN recent_joins
        /\ recent_joins[i + SURGE_JOINS - 1] - recent_joins[i] < SURGE_WINDOW
\* C19: surge entry.  Whenever three joins have arrived within 30 seconds,
\* surge_mode is true or becomes true at a later iteration of surge_check.
C19_SurgeEntry == Burst ~> surge_mode

C21_ExitStep ==
    LET aged == \A k \in DOMAIN recent_joins : recent_joins[k] < now - SURGE_WINDOW
    IN  /\ (surge_mode /\ ~surge_mode')
            => /\ tasks' # tasks
               /\ aged
               /\ recent_joins' = <<>>
        /\ (tasks' # tasks /\ surge_mode /\ aged) => ~surge_mode'
\* C21: surge exit.  surge_mode goes from true to false only in an iteration
\* of surge_check at which every join of the window is older than
\* now - SURGE_WINDOW, and which leaves the window empty; an iteration that
\* finds surge_mode true and every join that old does set it to false; and
\* with no further joins surge_mode does become false.
C21_SurgeExit == [][C21_ExitStep]_vars /\ (surge_mode ~> ~surge_mode)
C21_Witness ==
    /\ mod_log_surge = <<"surge_detected", "surge_ended">>
    /\ ~surge_mode
    /\ recent_joins = <<>>
    /\ tasks[1].next > now

(***************************************************************************)
(* Properties: the webhook                                                 *)
(***************************************************************************)
\* The exchange x carried a signature other than the HMAC of its token.
Mismatch(x) == x.sig # Hmac(VERIFY_SECRET, x.token)
\* The exchanges of the webhook that were answered 200.
Accepted == {k \in DOMAIN inflight : inflight[k].response.status = 200}

\* The part of C22 on what a request starts: a request with a mismatching
\* signature is refused and appends no task; the runs of
\* process_verification_token are as many as the accepted requests, each of
\* which carried the HMAC of its token; and while no request has been
\* accepted, no table and no role has changed.
C22_UnsignedStartsNothing ==
    /\ \A k \in DOMAIN inflight :
          /\ Mismatch(inflight[k]) => ~inflight[k].response.ok
          /\ inflight[k].response.ok = (k \in Accepted)
          /\ k \in Accepted => ~Mismatch(inflight[k])
    /\ Len(tasks) = Cardinality(Accepted)
    /\ Accepted = {}
          => /\ actions = <<>> /\ quarantined = <<>> /\ dna_profiles = <<>>
             /\ \A i \in DOMAIN verifications :
                   ~verifications[i].used /\ verifications[i].status = "pending"
             /\ \A d \in DiscordIds : roles[d] = {}

\* C22: signature gate.  A request to the webhook whose X-Signature is not
\* the HMAC of its token is answered 403 invalid signature and starts no run
\* of process_verification_token; only a request with the matching signature
\* starts one.
C22_SignatureGate ==
    /\ C22_UnsignedStartsNothing
    /\ \A k \in DOMAIN inflight :
          (inflight[k].token # NoToken /\ Mismatch(inflight[k]))
             => /\ inflight[k].response.status = 403
                /\ inflight[k].response.error = "invalid signature"

(***************************************************************************)
(* Properties: the reasons of an assessment                                *)
(***************************************************************************)
\* The place of a kind of reason in the order of the spec; the two reasons on
\* social links come after it.
ReasonRank(kind) ==
    CASE kind = "dup_fp" -> 1
      [] kind = "dup_ip" -> 2
      [] kind = "prev_bans" -> 3
      [] kind = "datacenter" -> 4
      [] kind = "vpn" -> 5
      [] kind = "tor" -> 6
      [] kind = "proxy_score" -> 7
      [] kind = "honeypot" -> 8
      [] kind \in {"age_lt_1d", "age_lt_7d"} -> 9
      [] kind = "dna_match" -> 10
      [] OTHER -> 11
\* How many reasons of the kinds ks the value r carries.
ReasonCount(r, ks) == Cardinality({i \in DOMAIN r.reasons : r.reasons[i].kind \in ks})
\* The known profiles the submitted vectors match, by position.
Matching(a) ==
    IF a.fp_rows = <<>> \/ ~DictTruthy(a.fp_rows[1].dna) THEN {}
    ELSE {i \in DOMAIN a.known_dna_profiles :
             OverThreshold(dna_similarity(a.fp_rows[1].dna,
                                          [typing |-> a.known_dna_profiles[i].typing,
                                           mouse |-> a.known_dna_profiles[i].mouse]))}
\* The j-th smallest element of the set of numbers S.
Nth(S, j) == CHOOSE i \in S : Cardinality({x \in S : x < i}) = j - 1
\* Which signals apply to the arguments a, as the table of weights has them.
Applies(a, kind) ==
    CASE kind = "dup_fp" -> DictGet(a.db_stats, "same_fp_count", 0) > 0
      [] kind = "dup_ip" -> DictGet(a.db_stats, "same_ip_count", 0) > 0
      [] kind = "prev_bans" -> DictGet(a.db_stats, "previously_banned_count", 0) > 0
      [] kind = "datacenter" -> a.ip_info.is_datacenter
      [] kind = "vpn" -> a.ip_info.is_vpn
      [] kind = "tor" -> a.ip_info.is_tor
      [] kind = "proxy_score" -> a.ip_info.proxy_score # 0
      [] kind = "honeypot" -> a.honeypot_triggered
      [] kind = "age_lt_1d" -> a.account_age_days < 1
      [] kind = "age_lt_7d" -> a.account_age_days >= 1 /\ a.account_age_days < 7
      [] OTHER -> FALSE
ListedKinds ==
    {"dup_fp", "dup_ip", "prev_bans", "datacenter", "vpn", "tor", "proxy_score",
     "honeypot", "age_lt_1d", "age_lt_7d"}
\* The reasons of c up to the DNA matches are in the order of the spec, one
\* for each signal that applies and none for the others, and the DNA matches
\* follow in the order of the known profiles.
ListedReasonsInOrder(c) ==
    LET r == c[2]
        dna == SelectSeq(r.reasons, LAMBDA x : x.kind = "dna_match")
        M == Matching(c[1])
    IN  /\ \A i, j \in DOMAIN r.reasons :
              i < j => /\ ReasonRank(r.reasons[i].kind) <= ReasonRank(r.reasons[j].kind)
                       /\ ReasonRank(r.reasons[i].kind) = ReasonRank(r.reasons[j].kind)
                             => r.reasons[i].kind = "dna_match"
        /\ \A kind \in ListedKinds :
              ReasonCount(r, {kind}) = IF Applies(c[1], kind) THEN 1 ELSE 0
        /\ Len(dna) = Cardinality(M)
        /\ \A j \in DOMAIN dna :
              dna[j].who = c[1].known_dna_profiles[Nth(M, j)].discord_id

ActiveQuarantine(discord_id) ==
    \E k \in DOMAIN quarantined :
        /\ quarantined[k].discord_id = discord_id
        /\ quarantined[k].until_ts > now

\* C24: an active quarantine is not lifted early.  No step of a sweep takes
\* the quarantine role from a subject who has a quarantined row with
\* until_ts > now, whatever older rows the subject has.
C24_ActiveQuarantineKept ==
    [][\A d \in DiscordIds :
          (tasks' # tasks /\ ActiveQuarantine(d) /\ "quarantine" \in roles[d])
             => "quarantine" \in roles'[d]]_vars

(***************************************************************************)
(* Properties: the inputs of a decision                                    *)
(***************************************************************************)
\* The rows of fingerprints with the token, by rowid.
SubmissionsOf(token) == {i \in DOMAIN fingerprints : fingerprints[i].token = token}
\* The row of the last submission of the token.
LatestSubmission(token) ==
    fingerprints[CHOOSE i \in SubmissionsOf(token) : \A j \in SubmissionsOf(token) : j <= i]
\* The run at p has read every submission of its token, and no two of them
\* were written in the same second.
ReadAllInOrder(p) ==
    /\ Len(tasks[p].fp_rows) = Cardinality(SubmissionsOf(tasks[p].token))
    /\ \A i, j \in SubmissionsOf(tasks[p].token) :
          i # j => fingerprints[i].created_at # fingerprints[j].created_at
\* The run at p holds a reason of the kind.
HasReason(p, kind) ==
    \E k \in DOMAIN tasks[p].reasons : tasks[p].reasons[k].kind = kind

\* C25: most recent submission wins.  When a run computes the risk of a token
\* with several submissions, the honeypot reason and the reasons on the
\* address are those of the last submission alone.
C25_MostRecentWins ==
    [][\A p \in DOMAIN tasks :
          (/\ tasks[p].pc = "fetch_all_dna_profiles"
           /\ tasks'[p].pc = "mark_token_used"
           /\ Len(tasks[p].fp_rows) > 1
           /\ ReadAllInOrder(p))
             => LET latest == fp_obj(LatestSubmission(tasks[p].token))
                IN  /\ HasReason(p, "honeypot")' = latest.honeypot
                    /\ HasReason(p, "datacenter")' = latest.ip_info.is_datacenter
                    /\ HasReason(p, "vpn")' = latest.ip_info.is_vpn]_vars

\* The client fingerprint of a stored submission: the fp of the payload that
\* line 125 of web.py wrote into the column fp.
ClientFp(row) == JsonLoads(row.fp).fp
\* The client fingerprint of the current submission of the run at p.
CurrentClientFp(p) ==
    LET fp == tasks[p].fp_rows[1].fp
    IN  IF fp.kind = "str" THEN fp.v ELSE fp.v.fp
\* The other tokens with a stored submission of the same client fingerprint.
SameFpTokens(p) ==
    {fingerprints[i].token : i \in
        {j \in DOMAIN fingerprints : /\ fingerprints[j].token # tasks[p].token
                                     /\ ClientFp(fingerprints[j]) = CurrentClientFp(p)}}

\* C26: duplicate-fingerprint correlation.  The same_fp_count a run computes
\* is the number of other tokens with a stored submission whose client
\* fingerprint is that of the run's current submission.
C26_SameFpCount ==
    [][\A p \in DOMAIN tasks :
          (tasks[p].pc = "db_stats" /\ tasks'[p].pc = "fetch_all_dna_profiles")
             => tasks'[p].db_stats.same_fp_count = Cardinality(SameFpTokens(p))]_vars

(***************************************************************************)
(* Properties: the order of a run's effects                                *)
(***************************************************************************)
\* The effects of a decision, as a run records them in fx.
SideEffects ==
    {"verify_no_member", "add_roles_qrole", "quarantine_member", "quarantine_auto",
     "ban", "add_ban", "add_roles_vrole", "set_verification_status", "verified",
     "save_dna_profile"}
\* The kinds of audit entry a decision writes.
DecisionEntries == {"verified", "quarantine_auto", "verify_no_member", "ban"}

C27_ConsumeFirstInv ==
    /\ \A p \in DOMAIN tasks : \A k \in DOMAIN tasks[p].fx :
          tasks[p].fx[k] \in SideEffects
             => /\ \E j \in 1..(k - 1) : tasks[p].fx[j] = "mark_token_used"
                /\ RowOf(tasks[p].token).used
    /\ (\A i \in DOMAIN verifications : ~verifications[i].used)
          => /\ \A i \in DOMAIN verifications : verifications[i].status = "pending"
             /\ quarantined = <<>>
             /\ dna_profiles = <<>>
             /\ banned = {}
             /\ \A d \in DiscordIds : roles[d] = {}
             /\ \A i \in DOMAIN actions : actions[i].action \notin DecisionEntries
C27_ConsumeFirstStep ==
    (\/ quarantined' # quarantined
     \/ dna_profiles' # dna_profiles
     \/ banned' # banned
     \/ \E d \in DiscordIds : ~(roles'[d] \subseteq roles[d])
     \/ \E i \in DOMAIN verifications : verifications'[i].status # verifications[i].status
     \/ /\ Len(actions') > Len(actions)
        /\ actions'[Len(actions')].action \in DecisionEntries)
       => \E p \in DOMAIN tasks :
             /\ Steps(p)
             /\ Decisioned(p)
             /\ RowOf(tasks[p].token).used
\* C27: consume precedes side effects.  In every run the UPDATE used = 1 comes
\* before any role change, quarantined row, status change, profile, ban and
\* verified, quarantine_auto or verify_no_member entry of the run, each of
\* which is made in a state in which the token is used; while no token is
\* used none of them exists.
C27_ConsumePrecedesEffects == []C27_ConsumeFirstInv /\ [][C27_ConsumeFirstStep]_vars
C27_Witness ==
    \E p \in DOMAIN tasks :
        /\ Done(p)
        /\ tasks[p].fx = <<"mark_token_used", "add_roles_qrole", "quarantine_member",
                           "quarantine_auto", "ban", "add_ban">>
        /\ RowOf(tasks[p].token).used

(***************************************************************************)
(* Properties: /submit                                                     *)
(***************************************************************************)
\* The reasons for which the token is no longer, or never was, one to submit
\* for at second ts.
RejectReasons(token, ts) ==
    LET v == get_verification(verifications, token)
    IN  IF v = Null THEN {"token not found"}
        ELSE {"token already used" : u \in {TRUE} \cap {Val(v).used}}
             \cup {"token expired" : e \in {TRUE} \cap {Expired(Val(v), ts)}}
\* The step is a /submit with a token that is unknown, used or expired.
RejectedSubmit ==
    /\ Len(inflight') = Len(inflight) + 1
    /\ inflight'[Len(inflight')].token # NoToken
    /\ RejectReasons(inflight'[Len(inflight')].token, now) # {}
\* The answer names a reason that applies to the token.
SpecificReason(x) == x.response.error \in RejectReasons(x.token, now)
\* C28 as stated: every /submit with an unknown, used or expired token is
\* answered ok = false with the reason of the token.
C28_AlwaysSpecificReason ==
    [][RejectedSubmit =>
          LET x == inflight'[Len(inflight')]
          IN  ~x.response.ok /\ SpecificReason(x)]_vars
\* C28: a rejected submission has no effect on the verification store.  A
\* /submit with an unknown, used or expired token is answered ok = false,
\* stores no fingerprint, changes no table and starts no notification; the
\* reason it is answered with is the token's, unless the rate limiter turned
\* the request away first, which is answered 429 rate limit exceeded.
C28_RejectedSubmission ==
    [][RejectedSubmit =>
          LET x == inflight'[Len(inflight')]
          IN  /\ ~x.response.ok
              /\ ~x.notified
              /\ UNCHANGED storeVars
              /\ IF Len(RateEvict(ip_store[x.ip], now)) >= RATE_LIMIT
                 THEN x.response.status = 429 /\ x.response.error = "rate limit exceeded"
                 ELSE x.response.status = 400 /\ SpecificReason(x)]_vars
C28_Witness ==
    /\ fingerprints # <<>>
    /\ \E reason \in {"token not found", "token already used", "token expired"} :
          \E k \in DOMAIN inflight :
             /\ inflight[k].response = [status |-> 400, ok |-> FALSE, error |-> reason]
             /\ ~inflight[k].notified
    /\ \E k \in DOMAIN inflight : inflight[k].token = 1 /\ inflight[k].response.error = "token expired"
    /\ \E k \in DOMAIN inflight : inflight[k].token = 2 /\ inflight[k].response.error = "token already used"
    /\ \E k \in DOMAIN inflight : inflight[k].token = 3 /\ inflight[k].response.error = "token not found"

(***************************************************************************)
(* Properties: the outcomes of a token                                     *)
(***************************************************************************)
\* Some run of the token set its status to verified or wrote its verified
\* entry.
VerifiedOutcome(token) ==
    \E p \in DOMAIN tasks :
        /\ tasks[p].token = token
        /\ Did(p, "set_verification_status") \/ Did(p, "verified")
\* Some run of the token wrote its quarantined row or its quarantine_auto
\* entry.
QuarantineOutcome(token) ==
    \E p \in DOMAIN tasks :
        /\ tasks[p].token = token
        /\ Did(p, "quarantine_member") \/ Did(p, "quarantine_auto")
\* C29: one outcome per token.  Over every execution, duplicate notifications
\* included, no token has both a verified outcome and a quarantine outcome.
C29_OneOutcome ==
    \A token \in TokenIds : ~(VerifiedOutcome(token) /\ QuarantineOutcome(token))

(***************************************************************************)
(* Properties: the early exits of a run                                    *)
(***************************************************************************)
\* The run at p returns at line 117 (no row has its token) or at line 195
\* (the guild is not available).
EarlyExit(p) ==
    /\ tasks[p].pc \in {"get_verification", "fetch_all_dna_profiles"}
    /\ tasks'[p].pc = "done"
\* The run at p has returned early after reading the row of its token.
ExitedAtGuild(p) ==
    /\ Done(p)
    /\ tasks[p].discord_id_str # ""
    /\ tasks[p].fx = <<>>
C30_EarlyExitStep ==
    \A p \in DOMAIN tasks :
        EarlyExit(p)
           => /\ UNCHANGED <<storeVars, guildVars>>
              /\ tasks'[p].fx = <<>>
              /\ tasks[p].pc = "fetch_all_dna_profiles"
                    => bot_validate(get_verification(verifications', tasks[p].token), now)
                          = bot_validate(get_verification(verifications, tasks[p].token), now)
\* C30: early exits leave the token re-processable.  A run that returns
\* because no row has its token, or because the guild is not available, has
\* made no write: the step of its return changes no table and no role, the
\* run has recorded no effect, and the validity check answers for the token
\* what it answered before the return.
C30_EarlyExitFrame ==
    [](\A p \in DOMAIN tasks :
          tasks[p].pc \in {"get_verification", "fetch_fingerprints", "db_stats",
                           "fetch_all_dna_profiles"} => tasks[p].fx = <<>>)
    /\ [][C30_EarlyExitStep]_vars
\* A run of token 1 returned at line 195, a later run of the same token was
\* decisioned, and a run of an unknown token returned at line 117.
C30_Witness ==
    /\ \E p, q \in DOMAIN tasks :
          /\ p < q
          /\ tasks[p].token = tasks[q].token
          /\ ExitedAtGuild(p)
          /\ Done(q)
          /\ ~Replay(q)
          /\ Did(q, "mark_token_used")
          /\ Did(q, "quarantine_auto")
    /\ \E p \in DOMAIN tasks :
          /\ Done(p)
          /\ get_verification(verifications, tasks[p].token) = Null
          /\ tasks[p].fx = <<>>

====
